---------------------------- MODULE Spec2Model ----------------------------
(***************************************************************************)
(* Verification model of the figma-to-html extension.                      *)
(*                                                                         *)
(*   Part I    Safe Writer (src/src/services/codeWriter.ts): writeJSXCode  *)
(*             run by concurrent invocations against one workspace tree.   *)
(*   Part II   Validator (src/src/services/aiService.ts):                  *)
(*             cleanMarkdownCodeBlocks and validateJSXOutput on text.      *)
(*   Part III  Utility-scale mapper (src/src/services/tailwindMapper.ts).  *)
(*   Part IV   Layout source (src/src/services/licenseService.ts 234-365): *)
(*             parseFigmaUrl and fetchFigmaLayout.                         *)
(*   Part V    The writer's companions (codeWriter.ts 213-284):            *)
(*             suggestFileName, fileExists, determineTargetFolder.         *)
(*   Part VI   The command (src/src/commands/generateFromFigma.ts):        *)
(*             generateFromFigma and handleError.                          *)
(*                                                                         *)
(* Text is a sequence of one-character strings, so that the regular        *)
(* expressions and path functions of the source are computed character by  *)
(* character.                                                              *)
(***************************************************************************)
EXTENDS Integers, Sequences, FiniteSets, TLC

VARIABLES
    \* ---- Part I: workspace file tree and the writeJSXCode invocations
    workspaceOpen,  \* vscode.workspace.workspaceFolders?.[0] is defined
    dirs,           \* directories existing under the workspace root
    files,          \* destination files: <<folder, name>> -> content
    temps,          \* scratch files existing under .figma-temp
    timers,         \* pending setTimeout callbacks of scheduleTempFileCleanup
    shown,          \* notifications shown to the user: <<invocation, kind>>
    pc,             \* position of each invocation (its pending await)
    opt,            \* WriteOptions of each invocation
    loc,            \* locals of each invocation: resolved path, scratch uris
    answer,         \* what the confirmation prompt resolved to
    result,         \* what writeJSXCode returned or threw
    \* ---- history variables (never read by the program)
    existedAtCall,  \* the resolved path existed when the invocation began
    created,        \* scratch files written, with the preview that wrote them
    scheduled,      \* scratch files ever handed to scheduleTempFileCleanup
    dirs0, files0,  \* the file tree of the initial state
    \* ---- Part II: one run of generateJSXFromFigma
    aiConfig,       \* the figma-to-html settings callLLM reads
    gpc,            \* position of the run
    gparts,         \* history: the pieces the backend's answer is made of
    gresponse,      \* the content the backend answered with
    gresult,        \* what generateJSXFromFigma returned or threw
    \* ---- Part III: one call of the utility-scale mapper
    mpc,            \* position of the call
    mop,            \* the exported function called
    mvalue,         \* the pixel value handed in
    mscale,         \* the scale handed to findNearestWithTolerance
    mtol,           \* the tolerance argument, given or omitted
    mindex,         \* the index findClosestIndex returned
    mout,           \* the class or class suffix returned
    mnear,          \* what findNearestWithTolerance returned
    mprev,          \* history: the preceding call's value and result
    \* ---- Part IV: one call of fetchFigmaLayout
    figConfig,      \* the figmaToken setting and the FIGMA_TOKEN variable
    fpc,            \* position of the call
    finput,         \* the text handed in, with what it was built from
    fparsed,        \* what parseFigmaUrl returned or threw
    frequests,      \* the requests sent to the Figma API
    fresult,        \* what fetchFigmaLayout returned or threw
    \* ---- Part V: one call of suggestFileName
    npc,            \* position of the call
    nname,          \* the node name handed in, or none
    ndefault,       \* the default name handed in, or none
    nout,           \* the name returned
    \* ---- Part VI: one run of the generateFromFigma command
    cpc,            \* position of the run (its pending await)
    cinput,         \* what the input box resolved to
    clayout,        \* the layout fetchFigmaLayout returned
    ccode,          \* the text generateJSXFromFigma returned
    cwrite,         \* the arguments writeJSXCode was called with
    canswer,        \* what the confirmation prompt resolved to
    cerror,         \* the error on its way to the handlers
    cnotes,         \* the notifications shown, in order
    copened,        \* the documents and settings pages opened
    \* ---- history variables of the run
    csteps,         \* the pipeline steps started and ended, in order
    cwritten,       \* the paths handed to the file write
    cpreviews       \* the diff previews shown

writerVars == <<workspaceOpen, dirs, files, temps, timers, shown, pc, opt, loc,
                answer, result, existedAtCall, created, scheduled, dirs0, files0>>

genVars == <<aiConfig, gpc, gparts, gresponse, gresult>>

mapVars == <<mpc, mop, mvalue, mscale, mtol, mindex, mout, mnear, mprev>>

figVars == <<figConfig, fpc, finput, fparsed, frequests, fresult>>

nameVars == <<npc, nname, ndefault, nout>>

cmdVars == <<cpc, cinput, clayout, ccode, cwrite, canswer, cerror, cnotes,
             copened, csteps, cwritten, cpreviews>>

vars == <<writerVars, genVars, mapVars, figVars, nameVars, cmdVars>>

-----------------------------------------------------------------------------
(*                         Characters and text                             *)

Lower == {"a","b","c","d","e","f","g","h","i","j","k","l","m",
          "n","o","p","q","r","s","t","u","v","w","x","y","z"}
Upper == {"A","B","C","D","E","F","G","H","I","J","K","L","M",
          "N","O","P","Q","R","S","T","U","V","W","X","Y","Z"}
Digit == {"0","1","2","3","4","5","6","7","8","9"}

LowerOf == [c \in Upper |->
    CASE c = "A" -> "a" [] c = "B" -> "b" [] c = "C" -> "c" [] c = "D" -> "d"
      [] c = "E" -> "e" [] c = "F" -> "f" [] c = "G" -> "g" [] c = "H" -> "h"
      [] c = "I" -> "i" [] c = "J" -> "j" [] c = "K" -> "k" [] c = "L" -> "l"
      [] c = "M" -> "m" [] c = "N" -> "n" [] c = "O" -> "o" [] c = "P" -> "p"
      [] c = "Q" -> "q" [] c = "R" -> "r" [] c = "S" -> "s" [] c = "T" -> "t"
      [] c = "U" -> "u" [] c = "V" -> "v" [] c = "W" -> "w" [] c = "X" -> "x"
      [] c = "Y" -> "y" [] c = "Z" -> "z"]

\* String.prototype.toLowerCase on one character and on a text
lowerChar(c) == IF c \in Upper THEN LowerOf[c] ELSE c
toLowerCase(s) == [i \in 1..Len(s) |-> lowerChar(s[i])]

\* the text s[a..b] (empty when a > b)
Slice(s, a, b) == IF a > b THEN <<>> ELSE SubSeq(s, a, b)

-----------------------------------------------------------------------------
(*                     Part I: the Safe Writer                             *)

Procs == {"i1", "i2"}           \* concurrent invocations of writeJSXCode

Undefined == "undefined"        \* an option left unset / a dismissed prompt

\* file names handed to writeJSXCode
N_a    == <<"a">>
N_aTsx == <<"a", ".", "t", "s", "x">>
N_aJsx == <<"a", ".", "j", "s", "x">>
N_aTSX == <<"a", ".", "T", "S", "X">>
N_bJsX == <<"b", ".", "J", "s", "X">>
N_aCss == <<"a", ".", "c", "s", "s">>
N_aTsxBak == <<"a", ".", "t", "s", "x", ".", "b", "a", "k">>
N_aDot == <<"a", ".">>
N_dotTsx == <<".", "t", "s", "x">>
N_tsx == <<"t", "s", "x">>

\* the names a lone invocation is given
SoloFileNames == {N_a, N_aTsx, N_aJsx, N_aTSX, N_bJsX, N_aCss, N_aTsxBak,
                  N_aDot, N_dotTsx, N_tsx}

TargetFolders == {"pages", "components"}
FolderOpts    == {"pages", Undefined}
ShowDiffOpts  == {"true", "false", Undefined}

TempDir == ".figma-temp"

\* the delay of the cleanup timer, in milliseconds
CleanupDelayMs == 30000

\* what Date.now() returns to each invocation: the invocations start at
\* different milliseconds
ClockAt(p) == IF p = "i1" THEN 1000 ELSE 2000

\* path.extname: from the last '.' to the end; '' when there is no '.' or
\* the only '.' is the first character of the name
LastDot(s) == IF \E i \in 1..Len(s) : s[i] = "."
              THEN CHOOSE i \in 1..Len(s) :
                      s[i] = "." /\ \A j \in (i+1)..Len(s) : s[j] # "."
              ELSE 0
extname(s) == IF LastDot(s) <= 1 THEN <<>> ELSE Slice(s, LastDot(s), Len(s))

ExtTsx == <<".", "t", "s", "x">>
ExtJsx == <<".", "j", "s", "x">>

\* an extension check that compares the extension as written
CoerceExtension_CaseSensitive(fileName) ==
    LET ext == extname(fileName)
    IN  IF ext # ExtTsx /\ ext # ExtJsx THEN fileName \o ExtTsx ELSE fileName

\* codeWriter.ts 33-39: only .tsx / .jsx are kept, anything else gets .tsx
CoerceExtension(fileName) ==
    LET ext == toLowerCase(extname(fileName))
    IN  IF ext # ExtTsx /\ ext # ExtJsx THEN fileName \o ExtTsx ELSE fileName

\* codeWriter.ts 23: options.targetFolder || 'components'
ResolveFolder(targetFolder) ==
    IF targetFolder = Undefined THEN "components" ELSE targetFolder

\* codeWriter.ts 41: path.join(targetDir, fileName)
ResolvePath(o) == <<ResolveFolder(o.targetFolder), CoerceExtension(o.fileName)>>

\* fs.existsSync on a destination path
existsSync(path) == path \in DOMAIN files

\* a writer whose never-overwrite check is gone
OverwriteCheck_Dropped(path) == FALSE

\* codeWriter.ts 45: the never-overwrite check of writeJSXCode
OverwriteCheck(path) == existsSync(path)

\* codeWriter.ts 48, 58: options.showDiff !== false
PreviewEnabled(showDiff) == showDiff # "false"

\* a prompt that takes everything but 'No' for consent
askUserConfirmation_NotNo(action) == action # "No"

\* codeWriter.ts 207: action === 'Yes'
askUserConfirmation(action) == action = "Yes"

\* the jsxCode each invocation carries
CodeOf(p) == IF p = "i1" THEN "generated-1" ELSE "generated-2"

NoPath == <<>>
NoUri  == <<>>
NoResult  == [kind |-> "none",  msg |-> "", path |-> NoPath]
Cancelled == [kind |-> "null",  msg |-> "", path |-> NoPath]
Written(path) == [kind |-> "uri", msg |-> "", path |-> path]
Thrown(msg, path) == [kind |-> "error", msg |-> msg, path |-> path]

MsgNoWorkspace   == "No workspace folder found"
MsgAlreadyExists == "File already exists"
MsgWriteFailed   == "writeFile failed"

\* codeWriter.ts 54
AlreadyExists(path) == Thrown(MsgAlreadyExists, path)

\* scratch names: temp-<Date.now()>-<name>, empty-<Date.now()>-<name>
ScratchUri(prefix, stamp, name) == <<prefix, stamp, name>>

NoOpt == [fileName |-> <<>>, targetFolder |-> Undefined, showDiff |-> Undefined]
NoLoc == [path |-> NoPath, tempUri |-> NoUri, emptyUri |-> NoUri]

PreviewPcs == {"ex_writeTemp", "ex_diff", "nf_writeTemp", "nf_writeEmpty", "nf_diff"}

\* the workspace trees an invocation can find
InitFileSets ==
    { <<>> } \cup
    { [q \in {<<f, N_aTsx>>} |-> "old"] : f \in TargetFolders }

\* the writer at rest, for the runs of the other parts
WriterIdle ==
    /\ workspaceOpen = TRUE
    /\ dirs = {} /\ files = <<>> /\ temps = {} /\ timers = {} /\ shown = {}
    /\ pc = [p \in Procs |-> "off"]
    /\ opt = [p \in Procs |-> NoOpt]
    /\ loc = [p \in Procs |-> NoLoc]
    /\ answer = [p \in Procs |-> "none"]
    /\ result = [p \in Procs |-> NoResult]
    /\ existedAtCall = [p \in Procs |-> FALSE]
    /\ created = {} /\ scheduled = {}
    /\ dirs0 = {} /\ files0 = <<>>

\* two invocations race for one name; a lone invocation (the other one is
\* never started) is given every name
FileNames == IF \E p \in Procs : pc[p] = "off" THEN SoloFileNames ELSE {N_a}

InitWriterWith(pcs) ==
    /\ workspaceOpen \in BOOLEAN
    /\ files \in InitFileSets
    /\ dirs \in { d \in SUBSET TargetFolders : \A q \in DOMAIN files : q[1] \in d }
    /\ (~workspaceOpen => files = <<>> /\ dirs = {})
    /\ temps = {}
    /\ timers = {}
    /\ shown = {}
    /\ pc = pcs
    /\ opt = [p \in Procs |-> NoOpt]
    /\ loc = [p \in Procs |-> NoLoc]
    /\ answer = [p \in Procs |-> "none"]
    /\ result = [p \in Procs |-> NoResult]
    /\ existedAtCall = [p \in Procs |-> FALSE]
    /\ created = {}
    /\ scheduled = {}
    /\ dirs0 = dirs
    /\ files0 = files

InitWriter == InitWriterWith([p \in Procs |-> "idle"])

\* one invocation alone: the second is never started
InitWriterSolo == InitWriterWith([p \in Procs |-> IF p = "i1" THEN "idle" ELSE "off"])

Finish(p, r) ==
    /\ pc' = [pc EXCEPT ![p] = "done"]
    /\ result' = [result EXCEPT ![p] = r]

\* vscode.window.showWarningMessage('Failed to show diff preview: ...')
WarnPreview(p) == shown' = shown \cup {<<p, "warning: Failed to show diff preview">>}

\* codeWriter.ts 180-190: scheduleTempFileCleanup(tempUri)
Schedule(p, uris) ==
    /\ timers' = timers \cup {[uri |-> u, by |-> p, delay |-> CleanupDelayMs] : u \in uris}
    /\ scheduled' = scheduled \cup {[uri |-> u, by |-> p] : u \in uris}

\* codeWriter.ts 15-63: writeJSXCode from its entry to its first await
Call(p) ==
    /\ pc[p] = "idle"
    /\ UNCHANGED <<genVars, mapVars, figVars, nameVars, cmdVars>>
    /\ \E fileName \in FileNames, targetFolder \in FolderOpts, showDiff \in ShowDiffOpts :
         LET o == [fileName |-> fileName, targetFolder |-> targetFolder,
                   showDiff |-> showDiff]
             folder == ResolveFolder(targetFolder)
             name == CoerceExtension(fileName)
             path == ResolvePath(o)
             tempUri == ScratchUri("temp", ClockAt(p), name)
             emptyUri == ScratchUri("empty", ClockAt(p), name)
         IN
         /\ opt' = [opt EXCEPT ![p] = o]
         /\ existedAtCall' = [existedAtCall EXCEPT ![p] = workspaceOpen /\ path \in DOMAIN files]
         /\ UNCHANGED <<workspaceOpen, files, temps, timers, shown, answer,
                        created, scheduled, dirs0, files0>>
         /\ IF ~workspaceOpen
            THEN /\ Finish(p, Thrown(MsgNoWorkspace, NoPath))
                 /\ UNCHANGED <<dirs, loc>>
            ELSE IF OverwriteCheck(path)
            THEN IF PreviewEnabled(showDiff)
                 THEN \* showDiffPreview up to its writeFile(tempUri)
                      /\ dirs' = dirs \cup {folder, TempDir}
                      /\ loc' = [loc EXCEPT ![p] =
                                   [path |-> path, tempUri |-> tempUri, emptyUri |-> NoUri]]
                      /\ pc' = [pc EXCEPT ![p] = "ex_writeTemp"]
                      /\ UNCHANGED result
                 ELSE /\ dirs' = dirs \cup {folder}
                      /\ loc' = [loc EXCEPT ![p] = [NoLoc EXCEPT !.path = path]]
                      /\ Finish(p, AlreadyExists(path))
            ELSE IF PreviewEnabled(showDiff)
                 THEN \* showDiffPreviewForNewFile up to its writeFile(tempUri)
                      /\ dirs' = dirs \cup {folder, TempDir}
                      /\ loc' = [loc EXCEPT ![p] =
                                   [path |-> path, tempUri |-> tempUri, emptyUri |-> emptyUri]]
                      /\ pc' = [pc EXCEPT ![p] = "nf_writeTemp"]
                      /\ UNCHANGED result
                 ELSE \* askUserConfirmation shows the prompt
                      /\ dirs' = dirs \cup {folder}
                      /\ loc' = [loc EXCEPT ![p] = [NoLoc EXCEPT !.path = path]]
                      /\ pc' = [pc EXCEPT ![p] = "confirm"]
                      /\ UNCHANGED result

\* codeWriter.ts 103: the scratch write of showDiffPreview resolves
ExWriteTempOk(p) ==
    /\ UNCHANGED <<genVars, mapVars, figVars, nameVars, cmdVars>>
    /\ pc[p] = "ex_writeTemp"
    /\ temps' = temps \cup {loc[p].tempUri}
    /\ created' = created \cup {[uri |-> loc[p].tempUri, by |-> p]}
    /\ pc' = [pc EXCEPT ![p] = "ex_diff"]
    /\ UNCHANGED <<workspaceOpen, dirs, files, timers, shown, opt, loc, answer, result,
                   existedAtCall, scheduled, dirs0, files0>>

\* codeWriter.ts 103, 115-119, 54: the scratch write rejects; the catch warns
ExWriteTempFail(p) ==
    /\ UNCHANGED <<genVars, mapVars, figVars, nameVars, cmdVars>>
    /\ pc[p] = "ex_writeTemp"
    /\ WarnPreview(p)
    /\ Finish(p, AlreadyExists(loc[p].path))
    /\ UNCHANGED <<workspaceOpen, dirs, files, temps, timers, opt, loc, answer,
                   existedAtCall, created, scheduled, dirs0, files0>>

\* codeWriter.ts 106-114, 54: vscode.diff resolves, cleanup is scheduled
ExDiffOk(p) ==
    /\ UNCHANGED <<genVars, mapVars, figVars, nameVars, cmdVars>>
    /\ pc[p] = "ex_diff"
    /\ Schedule(p, {loc[p].tempUri})
    /\ Finish(p, AlreadyExists(loc[p].path))
    /\ UNCHANGED <<workspaceOpen, dirs, files, temps, shown, opt, loc, answer,
                   existedAtCall, created, dirs0, files0>>

\* codeWriter.ts 106-111, 115-119, 54: vscode.diff rejects; the catch warns
ExDiffFail(p) ==
    /\ UNCHANGED <<genVars, mapVars, figVars, nameVars, cmdVars>>
    /\ pc[p] = "ex_diff"
    /\ WarnPreview(p)
    /\ Finish(p, AlreadyExists(loc[p].path))
    /\ UNCHANGED <<workspaceOpen, dirs, files, temps, timers, opt, loc, answer,
                   existedAtCall, created, scheduled, dirs0, files0>>

\* codeWriter.ts 154: the first scratch write of showDiffPreviewForNewFile resolves
NfWriteTempOk(p) ==
    /\ UNCHANGED <<genVars, mapVars, figVars, nameVars, cmdVars>>
    /\ pc[p] = "nf_writeTemp"
    /\ temps' = temps \cup {loc[p].tempUri}
    /\ created' = created \cup {[uri |-> loc[p].tempUri, by |-> p]}
    /\ pc' = [pc EXCEPT ![p] = "nf_writeEmpty"]
    /\ UNCHANGED <<workspaceOpen, dirs, files, timers, shown, opt, loc, answer, result,
                   existedAtCall, scheduled, dirs0, files0>>

\* codeWriter.ts 154, 170-174, 63: it rejects; the catch warns, the prompt follows
NfWriteTempFail(p) ==
    /\ UNCHANGED <<genVars, mapVars, figVars, nameVars, cmdVars>>
    /\ pc[p] = "nf_writeTemp"
    /\ WarnPreview(p)
    /\ pc' = [pc EXCEPT ![p] = "confirm"]
    /\ UNCHANGED <<workspaceOpen, dirs, files, temps, timers, opt, loc, answer, result,
                   existedAtCall, created, scheduled, dirs0, files0>>

\* codeWriter.ts 157: the empty scratch write resolves
NfWriteEmptyOk(p) ==
    /\ UNCHANGED <<genVars, mapVars, figVars, nameVars, cmdVars>>
    /\ pc[p] = "nf_writeEmpty"
    /\ temps' = temps \cup {loc[p].emptyUri}
    /\ created' = created \cup {[uri |-> loc[p].emptyUri, by |-> p]}
    /\ pc' = [pc EXCEPT ![p] = "nf_diff"]
    /\ UNCHANGED <<workspaceOpen, dirs, files, timers, shown, opt, loc, answer, result,
                   existedAtCall, scheduled, dirs0, files0>>

\* codeWriter.ts 157, 170-174, 63: it rejects; the catch warns, the prompt follows
NfWriteEmptyFail(p) ==
    /\ UNCHANGED <<genVars, mapVars, figVars, nameVars, cmdVars>>
    /\ pc[p] = "nf_writeEmpty"
    /\ WarnPreview(p)
    /\ pc' = [pc EXCEPT ![p] = "confirm"]
    /\ UNCHANGED <<workspaceOpen, dirs, files, temps, timers, opt, loc, answer, result,
                   existedAtCall, created, scheduled, dirs0, files0>>

\* codeWriter.ts 160-169, 63: vscode.diff resolves, both cleanups are scheduled
NfDiffOk(p) ==
    /\ UNCHANGED <<genVars, mapVars, figVars, nameVars, cmdVars>>
    /\ pc[p] = "nf_diff"
    /\ Schedule(p, {loc[p].tempUri, loc[p].emptyUri})
    /\ pc' = [pc EXCEPT ![p] = "confirm"]
    /\ UNCHANGED <<workspaceOpen, dirs, files, temps, shown, opt, loc, answer, result,
                   existedAtCall, created, dirs0, files0>>

\* codeWriter.ts 160-165, 170-174, 63: vscode.diff rejects; the catch warns
NfDiffFail(p) ==
    /\ UNCHANGED <<genVars, mapVars, figVars, nameVars, cmdVars>>
    /\ pc[p] = "nf_diff"
    /\ WarnPreview(p)
    /\ pc' = [pc EXCEPT ![p] = "confirm"]
    /\ UNCHANGED <<workspaceOpen, dirs, files, temps, timers, opt, loc, answer, result,
                   existedAtCall, created, scheduled, dirs0, files0>>

\* codeWriter.ts 63-69, 201-207: the prompt resolves ('Yes', 'No' or dismissed)
Confirm(p) ==
    /\ UNCHANGED <<genVars, mapVars, figVars, nameVars, cmdVars>>
    /\ pc[p] = "confirm"
    /\ \E action \in {"Yes", "No", Undefined} :
         /\ answer' = [answer EXCEPT ![p] = action]
         /\ IF askUserConfirmation(action)
            THEN pc' = [pc EXCEPT ![p] = "write"] /\ UNCHANGED result
            ELSE Finish(p, Cancelled)
    /\ UNCHANGED <<workspaceOpen, dirs, files, temps, timers, shown, opt, loc,
                   existedAtCall, created, scheduled, dirs0, files0>>

\* codeWriter.ts 69-74: vscode.workspace.fs.writeFile resolves; it replaces
\* the content of whatever is at the path
WriteOk(p) ==
    /\ UNCHANGED <<genVars, mapVars, figVars, nameVars, cmdVars>>
    /\ pc[p] = "write"
    /\ files' = [q \in DOMAIN files \cup {loc[p].path} |->
                    IF q = loc[p].path THEN CodeOf(p) ELSE files[q]]
    /\ shown' = shown \cup {<<p, "info: Generated component saved">>}
    /\ Finish(p, Written(loc[p].path))
    /\ UNCHANGED <<workspaceOpen, dirs, temps, timers, opt, loc, answer,
                   existedAtCall, created, scheduled, dirs0, files0>>

\* codeWriter.ts 69: vscode.workspace.fs.writeFile rejects; the error propagates
WriteFail(p) ==
    /\ UNCHANGED <<genVars, mapVars, figVars, nameVars, cmdVars>>
    /\ pc[p] = "write"
    /\ Finish(p, Thrown(MsgWriteFailed, loc[p].path))
    /\ UNCHANGED <<workspaceOpen, dirs, files, temps, timers, shown, opt, loc, answer,
                   existedAtCall, created, scheduled, dirs0, files0>>

\* codeWriter.ts 181-189: the cleanup timer fires and the scratch file is deleted
CleanupDelete(tm) ==
    /\ UNCHANGED <<genVars, mapVars, figVars, nameVars, cmdVars>>
    /\ tm \in timers
    /\ timers' = timers \ {tm}
    /\ temps' = temps \ {tm.uri}
    /\ UNCHANGED <<workspaceOpen, dirs, files, shown, pc, opt, loc, answer, result,
                   existedAtCall, created, scheduled, dirs0, files0>>

\* codeWriter.ts 181-189: the timer fires and the delete throws (swallowed)
CleanupDeleteFails(tm) ==
    /\ UNCHANGED <<genVars, mapVars, figVars, nameVars, cmdVars>>
    /\ tm \in timers
    /\ tm.uri \in temps
    /\ timers' = timers \ {tm}
    /\ UNCHANGED <<workspaceOpen, dirs, files, temps, shown, pc, opt, loc, answer, result,
                   existedAtCall, created, scheduled, dirs0, files0>>

WriterNext ==
    \/ \E p \in Procs :
         \/ Call(p)
         \/ ExWriteTempOk(p) \/ ExWriteTempFail(p)
         \/ ExDiffOk(p) \/ ExDiffFail(p)
         \/ NfWriteTempOk(p) \/ NfWriteTempFail(p)
         \/ NfWriteEmptyOk(p) \/ NfWriteEmptyFail(p)
         \/ NfDiffOk(p) \/ NfDiffFail(p)
         \/ Confirm(p)
         \/ WriteOk(p) \/ WriteFail(p)
    \/ \E tm \in timers : CleanupDelete(tm)
    \/ \E tm \in timers : CleanupDeleteFails(tm)

-----------------------------------------------------------------------------
(*                     Claims about the Safe Writer                        *)

\* C1: an invocation of writeJSXCode whose resolved path exists when it is
\* called ends with the 'File already exists' error, whatever showDiff is and
\* whatever the prompts would be answered, and none of its steps changes a
\* destination file.
C1_ExistingPathFails ==
    /\ [](\A p \in Procs : existedAtCall[p] =>
            /\ pc[p] \in {"ex_writeTemp", "ex_diff", "done"}
            /\ answer[p] = "none"
            /\ pc[p] = "done" => result[p] = AlreadyExists(ResolvePath(opt[p])))
    /\ [][\A p \in Procs :
            existedAtCall'[p] /\ pc'[p] # pc[p] => files' = files]_vars

\* C1 witness: a call with showDiff unset on an existing path has failed and
\* the old content is still there.
C1_Witness ==
    \E p \in Procs :
        /\ existedAtCall[p] /\ pc[p] = "done"
        /\ opt[p].showDiff = Undefined
        /\ result[p].msg = MsgAlreadyExists
        /\ ResolvePath(opt[p]) \in DOMAIN files
        /\ files[ResolvePath(opt[p])] = "old"

\* C2: of two invocations that target the same path, the second to commit
\* fails: never have both returned the written location of the same path.
C2_SecondWriterFails ==
    \A p, q \in Procs :
        (p # q /\ result[p].kind = "uri" /\ result[q].kind = "uri")
            => result[p].path # result[q].path

\* C3: the destination is written only after the prompt was answered 'Yes';
\* after 'No' or a dismissed prompt the invocation has returned null and no
\* step of it changes a destination file.
C3_WriteOnlyAfterYes ==
    /\ [](\A p \in Procs :
            /\ (pc[p] = "write" \/ result[p].kind = "uri") => answer[p] = "Yes"
            /\ answer[p] \in {"No", Undefined} =>
                  (pc[p] = "done" /\ result[p] = Cancelled))
    /\ [][\A p \in Procs :
            (pc'[p] # pc[p] /\ files' # files) =>
                (pc[p] = "write" /\ answer[p] = "Yes")]_vars

\* C3 witness: one invocation was dismissed and returned null with its path
\* still absent, another one wrote after 'Yes'.
C3_Witness ==
    \E p, q \in Procs :
        /\ answer[p] = Undefined /\ result[p] = Cancelled
        /\ ResolvePath(opt[p]) \notin DOMAIN files
        /\ answer[q] = "Yes" /\ result[q].kind = "uri"
        /\ files[result[q].path] = CodeOf(q)

\* C4: when the only invocation there was has been declined, it returned null
\* and the file tree is the one it started from: no directory, no destination
\* file and no scratch file has been created, changed or removed.
C4_DeclineLeavesTreeUnchanged ==
    \A p \in Procs :
        (/\ pc[p] = "done" /\ answer[p] \in {"No", Undefined}
         /\ \A q \in Procs \ {p} : pc[q] = "idle")
        => /\ result[p] = Cancelled
           /\ dirs = dirs0 /\ files = files0 /\ temps = {}

\* C5: once a preview has returned, every scratch file it wrote has been
\* handed to scheduleTempFileCleanup, and no notification reports a cleanup
\* that failed.
C5_ScratchAlwaysScheduled ==
    /\ \A c \in created : pc[c.by] \notin PreviewPcs => c \in scheduled
    /\ \A m \in shown : m[2] \in {"warning: Failed to show diff preview",
                                  "info: Generated component saved"}

\* a name made of a non-empty stem and, in any letter case, .tsx or .jsx
EndsWithMarkupExt(name) ==
    /\ Len(name) >= 4
    /\ toLowerCase(Slice(name, Len(name) - 3, Len(name))) \in {ExtTsx, ExtJsx}
CarriesMarkupExt(name) == Len(name) > 4 /\ EndsWithMarkupExt(name)

\* C26: the name of every file writeJSXCode writes ends, in any letter case,
\* with .tsx or .jsx: a name that already carries one of the two extensions
\* is used unchanged and every other name, a name with another extension
\* included, gets .tsx appended.
C26_WrittenNameIsMarkup ==
    /\ \A q \in DOMAIN files : q \notin DOMAIN files0 => EndsWithMarkupExt(q[2])
    /\ \A p \in Procs : result[p].kind = "uri" =>
          /\ result[p].path \in DOMAIN files
          /\ result[p].path[2] =
                IF CarriesMarkupExt(opt[p].fileName) THEN opt[p].fileName
                ELSE opt[p].fileName \o ExtTsx

\* C26 witness: an invocation has written a name given in capitals under
\* that very name.
C26_Witness ==
    \E p \in Procs :
        /\ result[p].kind = "uri"
        /\ opt[p].fileName = N_aTSX
        /\ <<"components", N_aTSX>> \in DOMAIN files

\* a name with a foreign extension has been written with .tsx appended
C26_WitnessForeign ==
    \E p \in Procs :
        /\ result[p].kind = "uri"
        /\ opt[p].fileName = N_aCss
        /\ <<"components", N_aCss \o ExtTsx>> \in DOMAIN files

-----------------------------------------------------------------------------
(*            Part II: code synthesis and the output validator             *)

\* \s of the regular expressions and of String.prototype.trim
Ws == {" ", "\t", "\n", "\r"}
\* what '.' does not match
LineTerm == {"\n", "\r"}
Quote == {"\"", "'"}
\* the grave accent (U+0060), which a string literal cannot hold
Backtick == "[grave]"
Letter == Lower \cup Upper
AlNum == Letter \cup Digit

\* the character at position i, '' past either end
At(s, i) == IF i >= 1 /\ i <= Len(s) THEN s[i] ELSE ""

\* the literal lit stands at position i of s
HasAt(s, i, lit) ==
    /\ i >= 1 /\ i + Len(lit) - 1 <= Len(s)
    /\ \A k \in 1..Len(lit) : s[i + k - 1] = lit[k]

\* the same under the i flag (lit is given in lower case)
HasAtIgnoreCase(s, i, lit) ==
    /\ i >= 1 /\ i + Len(lit) - 1 <= Len(s)
    /\ \A k \in 1..Len(lit) : lowerChar(s[i + k - 1]) = lit[k]

\* where a greedy run of characters of class C starting at i ends: the first
\* position from i on that holds no character of C (Len(s)+1 at the end)
SkipWhile(s, i, C) ==
    CHOOSE j \in i..(Len(s) + 1) :
        /\ At(s, j) \notin C
        /\ \A k \in i..(j - 1) : s[k] \in C
SkipWs(s, i) == SkipWhile(s, i, Ws)

\* where a greedy run of characters outside C starting at i ends
SkipUntil(s, i, C) ==
    CHOOSE j \in i..(Len(s) + 1) :
        /\ (j = Len(s) + 1 \/ s[j] \in C)
        /\ \A k \in i..(j - 1) : s[k] \notin C

\* no character of s[a..b] is in C
NoneIn(s, a, b, C) == \A n \in a..b : s[n] \notin C

\* String.prototype.trim
trim(s) ==
    IF \A i \in 1..Len(s) : s[i] \in Ws THEN <<>>
    ELSE LET a == CHOOSE i \in 1..Len(s) :
                    s[i] \notin Ws /\ \A k \in 1..(i - 1) : s[k] \in Ws
             b == CHOOSE i \in 1..Len(s) :
                    s[i] \notin Ws /\ \A k \in (i + 1)..Len(s) : s[k] \in Ws
         IN  SubSeq(s, a, b)

L_style == <<"s", "t", "y", "l", "e">>
L_styleOpen == <<"<", "s", "t", "y", "l", "e">>
L_styleClose == <<"<", "/", "s", "t", "y", "l", "e", ">">>
L_styledDot == <<"s", "t", "y", "l", "e", "d", ".">>
L_css == <<"c", "s", "s">>
L_emotion == <<"@", "e", "m", "o", "t", "i", "o", "n">>
L_makeStyles == <<"m", "a", "k", "e", "S", "t", "y", "l", "e", "s">>
L_styledCall == <<"s", "t", "y", "l", "e", "d", "(">>
L_className == <<"c", "l", "a", "s", "s", "N", "a", "m", "e">>
L_import == <<"i", "m", "p", "o", "r", "t">>
L_from == <<"f", "r", "o", "m">>
L_dotCss == <<".", "c", "s", "s">>
L_dotModuleCss == <<".", "m", "o", "d", "u", "l", "e", ".", "c", "s", "s">>
L_require == <<"r", "e", "q", "u", "i", "r", "e">>
L_fence == <<Backtick, Backtick, Backtick>>
L_js == <<"j", "s">>
L_ts == <<"t", "s">>

\* aiService.ts 196: /^```(?:jsx?|tsx?)?\s*\n?/i, the opening fence removed
StripOpeningFence(s) ==
    IF ~HasAt(s, 1, L_fence) THEN s
    ELSE LET lang == IF HasAtIgnoreCase(s, 4, L_js) \/ HasAtIgnoreCase(s, 4, L_ts)
                     THEN IF lowerChar(At(s, 6)) = "x" THEN 3 ELSE 2
                     ELSE 0
             j == SkipWs(s, 4 + lang)
         IN  Slice(s, j, Len(s))

\* aiService.ts 199: /\n?```\s*$/i, the closing fence removed (the leftmost
\* fence that only white space follows, with the line break before it)
StripClosingFence(s) ==
    IF \E i \in 1..Len(s) : HasAt(s, i, L_fence) /\ SkipWs(s, i + 3) = Len(s) + 1
    THEN LET i == CHOOSE i \in 1..Len(s) :
                    /\ HasAt(s, i, L_fence) /\ SkipWs(s, i + 3) = Len(s) + 1
                    /\ \A k \in 1..(i - 1) :
                          ~(HasAt(s, k, L_fence) /\ SkipWs(s, k + 3) = Len(s) + 1)
             start == IF At(s, i - 1) = "\n" THEN i - 1 ELSE i
         IN  Slice(s, 1, start - 1)
    ELSE s

\* aiService.ts 191-202
cleanMarkdownCodeBlocks(content) ==
    trim(StripClosingFence(StripOpeningFence(trim(content))))

\* aiService.ts 217: /<[a-zA-Z][a-zA-Z0-9]*(\s|>|\/)/
jsxElementPattern(s) ==
    \E i \in 1..Len(s) :
        /\ s[i] = "<" /\ At(s, i + 1) \in Letter
        /\ At(s, SkipWhile(s, i + 2, AlNum)) \in Ws \cup {">", "/"}

\* aiService.ts 223: /style\s*=\s*\{[\s\S]*?\}/g
inlineStylePattern(s) ==
    \E i \in 1..Len(s) :
        /\ HasAt(s, i, L_style)
        /\ LET j == SkipWs(s, i + 5)
               k == SkipWs(s, j + 1)
           IN  /\ At(s, j) = "=" /\ At(s, k) = "{"
               /\ \E m \in (k + 1)..Len(s) : s[m] = "}"

\* aiService.ts 229: /style\s*=\s*[q][^q]*[q]/g
styleStringPattern(s) ==
    \E i \in 1..Len(s) :
        /\ HasAt(s, i, L_style)
        /\ LET j == SkipWs(s, i + 5)
               k == SkipWs(s, j + 1)
           IN  /\ At(s, j) = "=" /\ At(s, k) \in Quote
               /\ \E m \in (k + 1)..Len(s) : s[m] \in Quote

\* aiService.ts 235: /<style[^>]*>[\s\S]*?<\/style>/gi
styleTagPattern(s) ==
    \E i \in 1..Len(s) :
        /\ HasAtIgnoreCase(s, i, L_styleOpen)
        /\ LET g == SkipUntil(s, i + 6, {">"})
           IN  /\ At(s, g) = ">"
               /\ \E e \in (g + 1)..Len(s) : HasAtIgnoreCase(s, e, L_styleClose)

\* aiService.ts 241: /styled\.[a-zA-Z]+|css\s*`|@emotion|makeStyles|styled\(/g
styledComponentsPattern(s) ==
    \E i \in 1..Len(s) :
        \/ HasAt(s, i, L_styledDot) /\ At(s, i + 7) \in Letter
        \/ HasAt(s, i, L_css) /\ At(s, SkipWs(s, i + 3)) = Backtick
        \/ HasAt(s, i, L_emotion)
        \/ HasAt(s, i, L_makeStyles)
        \/ HasAt(s, i, L_styledCall)

\* aiService.ts 247: /className\s*=\s*[q][^q]*[:;]\s*[^q]*[q]/g
cssInClassNamePattern(s) ==
    \E i \in 1..Len(s) :
        /\ HasAt(s, i, L_className)
        /\ LET j == SkipWs(s, i + 9)
               k == SkipWs(s, j + 1)
           IN  /\ At(s, j) = "=" /\ At(s, k) \in Quote
               /\ \E m \in (k + 1)..Len(s) :
                     /\ s[m] \in Quote
                     /\ NoneIn(s, k + 1, m - 1, Quote)
                     /\ \E c \in (k + 1)..(m - 1) : s[c] \in {":", ";"}

\* aiService.ts 253: /import\s+[q].*\.css[q]/g
cssImportPattern(s) ==
    \E i \in 1..Len(s) :
        /\ HasAt(s, i, L_import) /\ At(s, i + 6) \in Ws
        /\ LET k == SkipWs(s, i + 6)
           IN  /\ At(s, k) \in Quote
               /\ \E e \in (k + 1)..Len(s) :
                     /\ HasAt(s, e, L_dotCss) /\ At(s, e + 4) \in Quote
                     /\ NoneIn(s, k + 1, e - 1, LineTerm)

\* s[a..b] matches \s+.*\s+
WsAnyWs(s, a, b) ==
    \E x \in a..(b - 1) : \E y \in (x + 1)..b :
        /\ \A n \in a..x : s[n] \in Ws
        /\ \A n \in y..b : s[n] \in Ws
        /\ NoneIn(s, x + 1, y - 1, LineTerm)

\* aiService.ts 259: /import\s+.*\s+from\s+[q].*\.module\.css[q]/g
cssModulePattern(s) ==
    \E i \in 1..Len(s) :
        /\ HasAt(s, i, L_import)
        /\ \E f \in (i + 8)..Len(s) :
              /\ HasAt(s, f, L_from) /\ WsAnyWs(s, i + 6, f - 1)
              /\ At(s, f + 4) \in Ws
              /\ LET k == SkipWs(s, f + 4)
                 IN  /\ At(s, k) \in Quote
                     /\ \E e \in (k + 1)..Len(s) :
                           /\ HasAt(s, e, L_dotModuleCss) /\ At(s, e + 11) \in Quote
                           /\ NoneIn(s, k + 1, e - 1, LineTerm)

\* aiService.ts 265: /require\s*\([q].*\.css[q]\)/g
requireCssPattern(s) ==
    \E i \in 1..Len(s) :
        /\ HasAt(s, i, L_require)
        /\ LET j == SkipWs(s, i + 7)
           IN  /\ At(s, j) = "(" /\ At(s, j + 1) \in Quote
               /\ \E e \in (j + 2)..Len(s) :
                     /\ HasAt(s, e, L_dotCss) /\ At(s, e + 4) \in Quote
                     /\ At(s, e + 5) = ")"
                     /\ NoneIn(s, j + 2, e - 1, LineTerm)

\* aiService.ts 271: /<[a-zA-Z]/
hasOpeningTag(s) == \E i \in 1..Len(s) : s[i] = "<" /\ At(s, i + 1) \in Letter

\* what validateJSXOutput and generateJSXFromFigma return or throw
NoOutcome == [kind |-> "none", text |-> <<>>, msg |-> ""]
Accepted(text) == [kind |-> "ok", text |-> text, msg |-> ""]
Failed(msg) == [kind |-> "error", text |-> <<>>, msg |-> msg]

\* the checks of validateJSXOutput in source order (aiService.ts 212-268)
Checks == 1..10

\* check k finds its violation in the trimmed text
Violates(k, trimmed) ==
    CASE k = 1 -> trimmed = <<>>
      [] k = 2 -> ~jsxElementPattern(trimmed)
      [] k = 3 -> inlineStylePattern(trimmed)
      [] k = 4 -> styleStringPattern(trimmed)
      [] k = 5 -> styleTagPattern(trimmed)
      [] k = 6 -> styledComponentsPattern(trimmed)
      [] k = 7 -> cssInClassNamePattern(trimmed)
      [] k = 8 -> cssImportPattern(trimmed)
      [] k = 9 -> cssModulePattern(trimmed)
      [] k = 10 -> requireCssPattern(trimmed)

\* the message of check k
RejectMessage(k) ==
    CASE k = 1 -> "Rejected: Output is empty. JSX code is required."
      [] k = 2 -> "Rejected: Output does not contain valid JSX code. Expected JSX elements."
      [] k = 3 -> "Rejected: Output contains inline styles (style={{ }}). Only Tailwind CSS classes are allowed."
      [] k = 4 -> "Rejected: Output contains inline style strings (style=\"...\"). Only Tailwind CSS classes are allowed."
      [] k = 5 -> "Rejected: Output contains <style> tags. Only Tailwind CSS classes are allowed."
      [] k = 6 -> "Rejected: Output contains CSS-in-JS patterns. Only Tailwind CSS classes are allowed."
      [] k = 7 -> "Rejected: Output contains CSS-like syntax in className. Only Tailwind utility classes are allowed."
      [] k = 8 -> "Rejected: Output contains CSS imports. Only Tailwind CSS classes are allowed."
      [] k = 9 -> "Rejected: Output contains CSS modules. Only Tailwind CSS classes are allowed."
      [] k = 10 -> "Rejected: Output contains require() CSS imports. Only Tailwind CSS classes are allowed."

MsgNotJsx == "Rejected: Output does not appear to be valid JSX code."

\* a validator that looks for style strings before inline style objects
validateJSXOutput_StringFirst(jsxCode) ==
    LET trimmed == trim(jsxCode)
    IN  IF Violates(1, trimmed) THEN Failed(RejectMessage(1))
        ELSE IF Violates(2, trimmed) THEN Failed(RejectMessage(2))
        ELSE IF Violates(4, trimmed) THEN Failed(RejectMessage(4))
        ELSE IF Violates(3, trimmed) THEN Failed(RejectMessage(3))
        ELSE IF Violates(5, trimmed) THEN Failed(RejectMessage(5))
        ELSE IF Violates(6, trimmed) THEN Failed(RejectMessage(6))
        ELSE IF Violates(7, trimmed) THEN Failed(RejectMessage(7))
        ELSE IF Violates(8, trimmed) THEN Failed(RejectMessage(8))
        ELSE IF Violates(9, trimmed) THEN Failed(RejectMessage(9))
        ELSE IF Violates(10, trimmed) THEN Failed(RejectMessage(10))
        ELSE IF ~hasOpeningTag(trimmed) THEN Failed(MsgNotJsx)
        ELSE Accepted(trimmed)

\* aiService.ts 208-277: the checks in source order, the first violation
\* found is thrown
validateJSXOutput(jsxCode) ==
    LET trimmed == trim(jsxCode)
    IN  IF Violates(1, trimmed) THEN Failed(RejectMessage(1))
        ELSE IF Violates(2, trimmed) THEN Failed(RejectMessage(2))
        ELSE IF Violates(3, trimmed) THEN Failed(RejectMessage(3))
        ELSE IF Violates(4, trimmed) THEN Failed(RejectMessage(4))
        ELSE IF Violates(5, trimmed) THEN Failed(RejectMessage(5))
        ELSE IF Violates(6, trimmed) THEN Failed(RejectMessage(6))
        ELSE IF Violates(7, trimmed) THEN Failed(RejectMessage(7))
        ELSE IF Violates(8, trimmed) THEN Failed(RejectMessage(8))
        ELSE IF Violates(9, trimmed) THEN Failed(RejectMessage(9))
        ELSE IF Violates(10, trimmed) THEN Failed(RejectMessage(10))
        ELSE IF ~hasOpeningTag(trimmed) THEN Failed(MsgNotJsx)
        ELSE Accepted(trimmed)

\* generateFromFigma.ts 178-181
withBreakpoint(breakpoint, className) ==
    IF className = <<>> THEN className ELSE breakpoint \o <<":">> \o className

\* <div className='flex p-4'>Hi</div>
F_Div ==
    <<"<", "d", "i", "v", " ", "c", "l", "a", "s", "s", "N", "a", "m", "e",
    "=", "\"", "f", "l", "e", "x", " ", "p", "-", "4", "\"", ">", "H", "i",
    "<", "/", "d", "i", "v", ">">>
\* <p className='mt-2'/>
F_P ==
    <<"<", "p", " ", "c", "l", "a", "s", "s", "N", "a", "m", "e", "=", "'",
    "m", "t", "-", "2", "'", "/", ">">>
\* <b style={{color:'red'}}/>
F_StyleObj ==
    <<"<", "b", " ", "s", "t", "y", "l", "e", "=", "{", "{", "c", "o", "l",
    "o", "r", ":", "'", "r", "e", "d", "'", "}", "}", "/", ">">>
\* <i style = 'top:0'/>
F_StyleStr ==
    <<"<", "i", " ", "s", "t", "y", "l", "e", " ", "=", " ", "\"", "t", "o",
    "p", ":", "0", "\"", "/", ">">>
\* <Style jsx>.a{}</STYLE>
F_StyleTag ==
    <<"<", "S", "t", "y", "l", "e", " ", "j", "s", "x", ">", ".", "a", "{",
    "}", "<", "/", "S", "T", "Y", "L", "E", ">">>
\* styled.div`top:0`
F_Styled ==
    <<"s", "t", "y", "l", "e", "d", ".", "d", "i", "v", Backtick, "t", "o", "p",
    ":", "0", Backtick>>
\* styled(Btn)``
F_StyledCall ==
    <<"s", "t", "y", "l", "e", "d", "(", "B", "t", "n", ")", Backtick, Backtick>>
\* <a className='color: red'/>
F_ClassCss ==
    <<"<", "a", " ", "c", "l", "a", "s", "s", "N", "a", "m", "e", "=", "\"",
    "c", "o", "l", "o", "r", ":", " ", "r", "e", "d", "\"", "/", ">">>
\* <a className={'color: red'}/>
F_ClassExpr ==
    <<"<", "a", " ", "c", "l", "a", "s", "s", "N", "a", "m", "e", "=", "{",
    "'", "c", "o", "l", "o", "r", ":", " ", "r", "e", "d", "'", "}", "/",
    ">">>
\* <a className='p-1 hover:bg-blue-600'/>
F_ClassHover ==
    <<"<", "a", " ", "c", "l", "a", "s", "s", "N", "a", "m", "e", "=", "\"",
    "p", "-", "1", " ", "h", "o", "v", "e", "r", ":", "b", "g", "-", "b", "l",
    "u", "e", "-", "6", "0", "0", "\"", "/", ">">>
\* import './a.css'
F_Import ==
    <<"i", "m", "p", "o", "r", "t", " ", "'", ".", "/", "a", ".", "c", "s",
    "s", "'">>
\* import s from './a.css'
F_ImportFrom ==
    <<"i", "m", "p", "o", "r", "t", " ", "s", " ", "f", "r", "o", "m", " ",
    "'", ".", "/", "a", ".", "c", "s", "s", "'">>
\* import s from './a.module.css'
F_ImportMod ==
    <<"i", "m", "p", "o", "r", "t", " ", "s", " ", "f", "r", "o", "m", " ",
    "'", ".", "/", "a", ".", "m", "o", "d", "u", "l", "e", ".", "c", "s", "s",
    "'">>
\* require('./a.css')
F_Require ==
    <<"r", "e", "q", "u", "i", "r", "e", "(", "'", ".", "/", "a", ".", "c",
    "s", "s", "'", ")">>
\* Here is the code
F_Prose ==
    <<"H", "e", "r", "e", " ", "i", "s", " ", "t", "h", "e", " ", "c", "o",
    "d", "e">>
\*  \t
F_Blank ==
    <<" ", "\t">>
\* <a className='md:flex'/>, the class built by withBreakpoint('md', 'flex')
F_ClassMd ==
    <<"<", "a", " ", "c", "l", "a", "s", "s", "N", "a", "m", "e", "=", "\"">>
    \o withBreakpoint(<<"m", "d">>, <<"f", "l", "e", "x">>) \o <<"\"", "/", ">">>

\* pieces of text a generative backend answers with, by what they contain
Frags == {
    [cat |-> "valid",        text |-> F_Div],
    [cat |-> "valid",        text |-> F_P],
    [cat |-> "styleObject",  text |-> F_StyleObj],
    [cat |-> "styleString",  text |-> F_StyleStr],
    [cat |-> "styleBlock",   text |-> F_StyleTag],
    [cat |-> "cssInJs",      text |-> F_Styled],
    [cat |-> "cssInJs",      text |-> F_StyledCall],
    [cat |-> "classColon",   text |-> F_ClassCss],
    [cat |-> "classColon",   text |-> F_ClassExpr],
    [cat |-> "classVariant", text |-> F_ClassHover],
    [cat |-> "classVariant", text |-> F_ClassMd],
    [cat |-> "cssImport",    text |-> F_Import],
    [cat |-> "cssImport",    text |-> F_ImportFrom],
    [cat |-> "cssModule",    text |-> F_ImportMod],
    [cat |-> "cssRequire",   text |-> F_Require],
    [cat |-> "prose",        text |-> F_Prose],
    [cat |-> "blank",        text |-> F_Blank] }

\* an answer is at most MaxFrags pieces, one per line
MaxFrags == 2
Answers == UNION { [1..n -> Frags] : n \in 0..MaxFrags }

JoinLines(parts) ==
    LET J[i \in 0..Len(parts)] ==
            IF i = 0 THEN <<>>
            ELSE IF i = 1 THEN parts[1].text
            ELSE J[i - 1] \o <<"\n">> \o parts[i].text
    IN  J[Len(parts)]

\* the answer as the backend sends it, inside a ```jsx fence or bare
Render(parts, fenced) ==
    IF fenced
    THEN L_fence \o <<"j", "s", "x", "\n">> \o JoinLines(parts) \o <<"\n">> \o L_fence
    ELSE JoinLines(parts)

MsgNoKey == "AI API key not configured"
MsgUnsupported == "Failed to call AI service: Unsupported AI provider"
MsgApiError == "Failed to call AI service: API error"
MsgNoResponse == "Failed to call AI service: No response from API"

\* a value the || of the source takes as present
Truthy(x) == x \notin {Undefined, ""}

\* aiService.ts 70: config.get('aiApiKey') || process.env.OPENAI_API_KEY
apiKeyOf(config) ==
    IF Truthy(config.aiApiKey) THEN config.aiApiKey ELSE config.envApiKey

\* the aiApiKey and aiProvider settings and the OPENAI_API_KEY variable of
\* the environment
AiConfigs == [aiApiKey : {"", "sk-key"}, envApiKey : {Undefined, "sk-env"},
              aiProvider : {"openai", "anthropic", "cohere"}]

InitGen ==
    /\ aiConfig \in AiConfigs
    /\ gpc = "idle"
    /\ gparts = <<>>
    /\ gresponse = <<>>
    /\ gresult = NoOutcome

GenIdle ==
    /\ aiConfig = [aiApiKey |-> "", envApiKey |-> Undefined, aiProvider |-> "openai"]
    /\ gpc = "off"
    /\ gparts = <<>>
    /\ gresponse = <<>>
    /\ gresult = NoOutcome

\* aiService.ts 31-33, 68-85: generateJSXFromFigma up to the request
GenStart ==
    /\ gpc = "idle"
    /\ IF ~Truthy(apiKeyOf(aiConfig))
       THEN gpc' = "done" /\ gresult' = Failed(MsgNoKey)
       ELSE IF aiConfig.aiProvider \notin {"openai", "anthropic"}
       THEN gpc' = "done" /\ gresult' = Failed(MsgUnsupported)
       ELSE gpc' = "fetch" /\ UNCHANGED gresult
    /\ UNCHANGED <<aiConfig, gparts, gresponse>>
    /\ UNCHANGED <<writerVars, mapVars, figVars, nameVars, cmdVars>>

\* aiService.ts 125-128, 172-175, 86-88: the request fails or is refused
LLMFails ==
    /\ gpc = "fetch"
    /\ gpc' = "done"
    /\ gresult' = Failed(MsgApiError)
    /\ UNCHANGED <<aiConfig, gparts, gresponse>>
    /\ UNCHANGED <<writerVars, mapVars, figVars, nameVars, cmdVars>>

\* aiService.ts 130-138, 177-185, 33-35: the backend answers; the answer is
\* cleaned of its fence and validated
LLMResponds ==
    /\ gpc = "fetch"
    /\ \E parts \in Answers, fenced \in BOOLEAN :
         LET content == Render(parts, fenced)
         IN  /\ gparts' = parts
             /\ gresponse' = content
             /\ gresult' = IF content = <<>> THEN Failed(MsgNoResponse)
                           ELSE validateJSXOutput(cleanMarkdownCodeBlocks(content))
    /\ gpc' = "done"
    /\ UNCHANGED aiConfig
    /\ UNCHANGED <<writerVars, mapVars, figVars, nameVars, cmdVars>>

GenNext == GenStart \/ LLMFails \/ LLMResponds

-----------------------------------------------------------------------------
(*                     Claims about the validator                          *)

\* C6: an answer holding one piece of a rejected kind (an inline style object,
\* an inline style string, a <style> block, a styled-component call, a class
\* value with a colon, a stylesheet import) among otherwise valid markup is
\* rejected, and an answer whose class attributes hold only bare utility
\* tokens is returned trimmed.
C6_RejectsEachKindAcceptsBare ==
    (gpc = "done" /\ gresponse # <<>>) =>
        LET cats == {gparts[i].cat : i \in 1..Len(gparts)}
            rejectedKinds == {"styleObject", "styleString", "styleBlock", "cssInJs",
                              "classColon", "classVariant", "cssImport"}
            offending == {i \in 1..Len(gparts) : gparts[i].cat \in rejectedKinds}
        IN  /\ (gparts # <<>> /\ cats = {"valid"})
                  => gresult = Accepted(JoinLines(gparts))
            /\ (Cardinality(offending) = 1 /\ cats \subseteq rejectedKinds \cup {"valid"})
                  => (/\ gresult.kind = "error"
                      /\ gresult.msg \in {RejectMessage(k) : k \in Checks} \cup {MsgNotJsx})

\* C7: no text generateJSXFromFigma returns holds an import of a '.css' file,
\* in the side-effect, the default, the CSS-module or the require form.
C7_NoStylesheetImportReturned ==
    gresult.kind = "ok" =>
        \A i \in 1..Len(gparts) :
            gparts[i].cat \notin {"cssImport", "cssModule", "cssRequire"}

\* C8: the error raised is the message of the first check, in source order,
\* that the trimmed text violates; text that violates none is returned; and
\* no two checks share a message.
C8_FirstViolationReported ==
    /\ \A j, k \in Checks : j # k => RejectMessage(j) # RejectMessage(k)
    /\ \A k \in Checks : RejectMessage(k) # MsgNotJsx
    /\ (gpc = "done" /\ gresponse # <<>>) =>
          LET trimmed == trim(cleanMarkdownCodeBlocks(gresponse))
              violated == {k \in Checks : Violates(k, trimmed)}
          IN  IF violated = {}
              THEN gresult = Accepted(trimmed)
              ELSE gresult = Failed(RejectMessage(
                       CHOOSE k \in violated : \A j \in violated : k <= j))

\* C8 witness: an answer with a style string on its first line and a style
\* object on its second was rejected for the style object.
C8_Witness ==
    /\ gpc = "done" /\ gresponse # <<>>
    /\ Len(gparts) = 2
    /\ gparts[1].cat = "styleString" /\ gparts[2].cat = "styleObject"
    /\ gresult = Failed(RejectMessage(3))

\* C9: an answer in the README's format whose class values carry a variant
\* prefix (hover:bg-blue-600) or a breakpoint prefix (md:flex) is returned.
C9_VariantClassesAccepted ==
    (/\ gpc = "done" /\ gparts # <<>>
     /\ \A i \in 1..Len(gparts) : gparts[i].cat \in {"valid", "classVariant"})
        => gresult = Accepted(JoinLines(gparts))

-----------------------------------------------------------------------------
(*                  Part III: the utility-scale mapper                     *)

\* tailwindMapper.ts 9-11
SPACING_SCALE_PX ==
    <<0, 2, 4, 6, 8, 10, 12, 14, 16, 20, 24, 28, 32, 36, 40, 44, 48, 52, 56,
      60, 64, 72, 80, 96>>

\* tailwindMapper.ts 14-16
SPACING_UNITS == <<
    <<"0">>, <<"0", ".", "5">>, <<"1">>, <<"1", ".", "5">>, <<"2">>, <<"2",
    ".", "5">>, <<"3">>, <<"3", ".", "5">>, <<"4">>, <<"5">>, <<"6">>,
    <<"7">>, <<"8">>, <<"9">>, <<"1", "0">>, <<"1", "1">>, <<"1", "2">>,
    <<"1", "4">>, <<"1", "6">>, <<"2", "0">>, <<"2", "4">>, <<"2", "8">>,
    <<"3", "2">>, <<"3", "6">>, <<"4", "0">>, <<"4", "4">>, <<"4", "8">>,
    <<"5", "2">>, <<"5", "6">>, <<"6", "0">>, <<"6", "4">>, <<"7", "2">>,
    <<"8", "0">>, <<"9", "6">> >>

\* Math.abs
Abs(x) == IF x < 0 THEN -x ELSE x

\* scale[i] of the source (arrays start at 0)
Elem(scale, i) == scale[i + 1]

\* tailwindMapper.ts 67-81: the binary search loop, keeping the closest
\* index met and its distance
RECURSIVE BinarySearch(_, _, _, _, _, _)
BinarySearch(value, scale, left, right, closestIndex, closestDiff) ==
    IF left > right
    THEN [closestIndex |-> closestIndex, closestDiff |-> closestDiff]
    ELSE LET mid == (left + right) \div 2
             diff == Abs(Elem(scale, mid) - value)
             ci == IF diff < closestDiff THEN mid ELSE closestIndex
             cd == IF diff < closestDiff THEN diff ELSE closestDiff
         IN  IF Elem(scale, mid) < value
             THEN BinarySearch(value, scale, mid + 1, right, ci, cd)
             ELSE BinarySearch(value, scale, left, mid - 1, ci, cd)

\* tailwindMapper.ts 84-96: the neighbours of the index found, in the order
\* index-1, index, index+1, each replacing the closest on a smaller distance
RECURSIVE ScanNeighbors(_, _, _, _, _)
ScanNeighbors(value, scale, neighbors, closestIndex, closestDiff) ==
    IF neighbors = <<>> THEN closestIndex
    ELSE LET idx == Head(neighbors)
             diff == Abs(Elem(scale, idx) - value)
         IN  IF diff < closestDiff
             THEN ScanNeighbors(value, scale, Tail(neighbors), idx, diff)
             ELSE ScanNeighbors(value, scale, Tail(neighbors), closestIndex, closestDiff)

\* a lower-bound search: the first index whose entry is not below the value,
\* whatever the distances
findClosestIndex_LowerBound(value, scale) ==
    IF Len(scale) = 0 THEN 0
    ELSE IF \E i \in 0..(Len(scale) - 1) : Elem(scale, i) >= value
         THEN CHOOSE i \in 0..(Len(scale) - 1) :
                 /\ Elem(scale, i) >= value
                 /\ \A j \in 0..(i - 1) : Elem(scale, j) < value
         ELSE Len(scale) - 1

\* tailwindMapper.ts 52-99
findClosestIndex(value, scale) ==
    IF Len(scale) = 0 THEN 0
    ELSE IF Len(scale) = 1 THEN 0
    ELSE IF value <= Elem(scale, 0) THEN 0
    ELSE IF value >= Elem(scale, Len(scale) - 1) THEN Len(scale) - 1
    ELSE LET found == BinarySearch(value, scale, 0, Len(scale) - 1, 0,
                                   Abs(Elem(scale, 0) - value))
             c == found.closestIndex
             neighbors == SelectSeq(<<c - 1, c, c + 1>>,
                                    LAMBDA i : i >= 0 /\ i < Len(scale))
         IN  ScanNeighbors(value, scale, neighbors, c, found.closestDiff)

\* a spacingToTailwind that hands px itself, not its magnitude, to the search
spacingToTailwind_NoAbs(px) ==
    LET isNegative == px < 0
        closestIndex == findClosestIndex(px, SPACING_SCALE_PX)
        closestUnit == Elem(SPACING_UNITS, closestIndex)
    IN  IF isNegative THEN <<"-">> \o closestUnit ELSE closestUnit

\* tailwindMapper.ts 126-136
spacingToTailwind(px) ==
    LET isNegative == px < 0
        absPx == Abs(px)
        closestIndex == findClosestIndex(absPx, SPACING_SCALE_PX)
        closestUnit == Elem(SPACING_UNITS, closestIndex)
    IN  IF isNegative THEN <<"-">> \o closestUnit ELSE closestUnit

\* tailwindMapper.ts 19-33, in the order Object.entries lists the keys
TEXT_SIZE_SCALE == <<
    [key |-> <<"x", "s">>, px |-> 12],
    [key |-> <<"s", "m">>, px |-> 14],
    [key |-> <<"b", "a", "s", "e">>, px |-> 16],
    [key |-> <<"l", "g">>, px |-> 18],
    [key |-> <<"x", "l">>, px |-> 20],
    [key |-> <<"2", "x", "l">>, px |-> 24],
    [key |-> <<"3", "x", "l">>, px |-> 30],
    [key |-> <<"4", "x", "l">>, px |-> 36],
    [key |-> <<"5", "x", "l">>, px |-> 48],
    [key |-> <<"6", "x", "l">>, px |-> 60],
    [key |-> <<"7", "x", "l">>, px |-> 72],
    [key |-> <<"8", "x", "l">>, px |-> 96],
    [key |-> <<"9", "x", "l">>, px |-> 128] >>

\* a scan that lets a later entry at the same distance replace the closest
findClosestKey_LastWins(value, entries) ==
    LET Closest[i \in 0..Len(entries)] ==
            IF i = 0 THEN 1
            ELSE IF Abs(entries[i].px - value) <= Abs(entries[Closest[i - 1]].px - value)
                 THEN i ELSE Closest[i - 1]
    IN  entries[Closest[Len(entries)]].key

\* tailwindMapper.ts 104-118: the entries in order, each replacing the closest
\* on a strictly smaller distance
findClosestKey(value, entries) ==
    LET Closest[i \in 0..Len(entries)] ==
            IF i = 0 THEN 1
            ELSE IF Abs(entries[i].px - value) < Abs(entries[Closest[i - 1]].px - value)
                 THEN i ELSE Closest[i - 1]
    IN  entries[Closest[Len(entries)]].key

L_textDash == <<"t", "e", "x", "t", "-">>

\* tailwindMapper.ts 144-147
fontSizeToTailwind(px) == L_textDash \o findClosestKey(px, TEXT_SIZE_SCALE)

\* what findNearestWithTolerance returns: a scale value or null
NoNearest == [kind |-> "none", value |-> 0]
NullNearest == [kind |-> "null", value |-> 0]
Nearest(v) == [kind |-> "value", value |-> v]

\* the optional tolerance argument
NoTolerance == [given |-> FALSE, value |-> 0]
Tolerance(n) == [given |-> TRUE, value |-> n]

Max(a, b) == IF a >= b THEN a ELSE b

\* a findNearestWithTolerance that returns the closest value unconditionally
findNearestWithTolerance_NoCheck(value, scale, tolerance) ==
    IF Len(scale) = 0 THEN NullNearest
    ELSE Nearest(Elem(scale, findClosestIndex(value, scale)))

\* tailwindMapper.ts 179-199; the default tolerance max(closestValue * 0.5, 2)
\* has a half in it, so both sides of the comparison are kept doubled
findNearestWithTolerance(value, scale, tolerance) ==
    IF Len(scale) = 0 THEN NullNearest
    ELSE LET closestIndex == findClosestIndex(value, scale)
             closestValue == Elem(scale, closestIndex)
             diff2 == 2 * Abs(closestValue - value)
             defaultTolerance2 == Max(closestValue, 4)
             maxDiff2 == IF tolerance.given THEN 2 * tolerance.value
                         ELSE defaultTolerance2
         IN  IF diff2 > maxDiff2 THEN NullNearest ELSE Nearest(closestValue)

\* the pixel values handed to the mapper: -MaxPx .. MaxPx
MaxPx == 100

\* the scales handed to findNearestWithTolerance, each ascending
NearScales == {<<>>, <<4>>, <<0, 10>>, <<2, 4, 8, 16>>, <<1, 2, 3, 5, 8, 13>>,
               <<1, 3, 3, 3, 9, 9, 20>>, SPACING_SCALE_PX}

\* the tolerances handed to findNearestWithTolerance: -MaxTol .. MaxTol, or
\* none
MaxTol == 3
Tolerances == {NoTolerance} \cup {Tolerance(n) : n \in (-MaxTol)..MaxTol}

NoPrev == [called |-> FALSE, value |-> 0, out |-> <<>>]

MapOps == {"spacingToTailwind", "fontSizeToTailwind", "findNearestWithTolerance"}

InitMap ==
    /\ mpc = "ready"
    /\ mop \in MapOps
    /\ mvalue \in (-MaxPx)..MaxPx
    /\ IF mop = "findNearestWithTolerance"
       THEN mscale \in NearScales /\ mtol \in Tolerances
       ELSE mscale = <<>> /\ mtol = NoTolerance
    /\ mindex = -1
    /\ mout = <<>>
    /\ mnear = NoNearest
    /\ mprev = NoPrev

MapIdle ==
    /\ mpc = "off"
    /\ mop = "none"
    /\ mvalue = 0
    /\ mscale = <<>>
    /\ mtol = NoTolerance
    /\ mindex = -1
    /\ mout = <<>>
    /\ mnear = NoNearest
    /\ mprev = NoPrev

\* tailwindMapper.ts 126-136: one call spacingToTailwind(mvalue)
MapSpacing ==
    /\ mpc = "ready"
    /\ mop = "spacingToTailwind"
    /\ mindex' = findClosestIndex(Abs(mvalue), SPACING_SCALE_PX)
    /\ mout' = spacingToTailwind(mvalue)
    /\ mpc' = "done"
    /\ UNCHANGED <<mop, mvalue, mscale, mtol, mnear, mprev>>
    /\ UNCHANGED <<writerVars, genVars, figVars, nameVars, cmdVars>>

\* tailwindMapper.ts 126-136: the caller goes on to map the negated value
MapNegated ==
    /\ mpc = "done"
    /\ mop = "spacingToTailwind"
    /\ ~mprev.called
    /\ mprev' = [called |-> TRUE, value |-> mvalue, out |-> mout]
    /\ mvalue' = -mvalue
    /\ mindex' = -1
    /\ mout' = <<>>
    /\ mpc' = "ready"
    /\ UNCHANGED <<mop, mscale, mtol, mnear>>
    /\ UNCHANGED <<writerVars, genVars, figVars, nameVars, cmdVars>>

\* tailwindMapper.ts 144-147: one call fontSizeToTailwind(mvalue)
MapFontSize ==
    /\ mpc = "ready"
    /\ mop = "fontSizeToTailwind"
    /\ mout' = fontSizeToTailwind(mvalue)
    /\ mpc' = "done"
    /\ UNCHANGED <<mop, mvalue, mscale, mtol, mindex, mnear, mprev>>
    /\ UNCHANGED <<writerVars, genVars, figVars, nameVars, cmdVars>>

\* tailwindMapper.ts 179-199: one call
\* findNearestWithTolerance(mvalue, mscale, mtol)
MapNearest ==
    /\ mpc = "ready"
    /\ mop = "findNearestWithTolerance"
    /\ mindex' = findClosestIndex(mvalue, mscale)
    /\ mnear' = findNearestWithTolerance(mvalue, mscale, mtol)
    /\ mpc' = "done"
    /\ UNCHANGED <<mop, mvalue, mscale, mtol, mout, mprev>>
    /\ UNCHANGED <<writerVars, genVars, figVars, nameVars, cmdVars>>

MapNext == MapSpacing \/ MapNegated \/ MapFontSize \/ MapNearest

-----------------------------------------------------------------------------
(*                  Claims about the utility-scale mapper                  *)

\* C10: for a non-negative value exactly halfway between two adjacent entries
\* of the spacing scale, the index chosen is the lower of the two.
C10_TieTakesLowerIndex ==
    (mpc = "done" /\ mop = "spacingToTailwind" /\ mvalue >= 0) =>
        \A i \in 0..(Len(SPACING_SCALE_PX) - 2) :
            (2 * mvalue = Elem(SPACING_SCALE_PX, i) + Elem(SPACING_SCALE_PX, i + 1))
                => (mindex = i /\ mout = Elem(SPACING_UNITS, i))

\* C11: for a pixel value whose magnitude is an entry of SPACING_SCALE_PX the
\* suffix returned is the decimal label of magnitude / 4 (20 -> 5, 52 -> 13,
\* 64 -> 16, 96 -> 24), after the negation marker for a negative value.
C11_ScaleEntryGetsQuarterLabel ==
    (/\ mpc = "done" /\ mop = "spacingToTailwind"
     /\ \E i \in 1..Len(SPACING_SCALE_PX) : SPACING_SCALE_PX[i] = Abs(mvalue)) =>
        LET digit == <<"0", "1", "2", "3", "4", "5", "6", "7", "8", "9">>
            q == Abs(mvalue) \div 4
            whole == IF q < 10 THEN <<digit[q + 1]>>
                     ELSE <<digit[(q \div 10) + 1], digit[(q % 10) + 1]>>
            half == IF Abs(mvalue) % 4 = 2 THEN <<".", "5">> ELSE <<>>
            marker == IF mvalue < 0 THEN <<"-">> ELSE <<>>
        IN  mout = marker \o whole \o half

\* C12: the spacing scale keeps the UtilityScale invariant in every state: as
\* many raw values as labels, every index of one an index of the other, the
\* raw values non-decreasing, and the index a call arrives at within both.
C12_SpacingScaleInvariant ==
    /\ Len(SPACING_SCALE_PX) = Len(SPACING_UNITS)
    /\ DOMAIN SPACING_SCALE_PX = DOMAIN SPACING_UNITS
    /\ \A i \in 1..(Len(SPACING_SCALE_PX) - 1) :
          SPACING_SCALE_PX[i] <= SPACING_SCALE_PX[i + 1]
    /\ (mop = "spacingToTailwind" /\ mpc = "done") =>
          (mindex + 1 \in DOMAIN SPACING_SCALE_PX /\ mindex + 1 \in DOMAIN SPACING_UNITS)

\* C13: a magnitude at or below the smallest spacing entry gets the first
\* label of SPACING_UNITS and a magnitude at or above the largest entry gets
\* the last label of SPACING_UNITS.
C13_ClampsToEndLabels ==
    (mpc = "done" /\ mop = "spacingToTailwind") =>
        LET unit == IF mvalue < 0 THEN Tail(mout) ELSE mout
        IN  /\ Abs(mvalue) <= SPACING_SCALE_PX[1]
                => unit = SPACING_UNITS[1]
            /\ Abs(mvalue) >= SPACING_SCALE_PX[Len(SPACING_SCALE_PX)]
                => unit = SPACING_UNITS[Len(SPACING_UNITS)]

\* C14 as stated: for every v, positive, zero or negative, the suffix of -v
\* is the negation marker followed by the suffix of v.
C14_NegationForEveryValue ==
    (mpc = "done" /\ mop = "spacingToTailwind" /\ mprev.called) =>
        (mvalue = -mprev.value /\ mout = <<"-">> \o mprev.out)

\* C14 amended: for every v > 0, the suffix of -v is the negation marker
\* followed by the suffix of v.
C14_NegationForPositive ==
    (mpc = "done" /\ mop = "spacingToTailwind" /\ mprev.called /\ mprev.value > 0) =>
        (mvalue = -mprev.value /\ mout = <<"-">> \o mprev.out)

\* C14 witness: 8 was mapped to 2 and then -8 to -2.
C14_Witness ==
    /\ mpc = "done" /\ mop = "spacingToTailwind"
    /\ mprev = [called |-> TRUE, value |-> 8, out |-> <<"2">>]
    /\ mvalue = -8 /\ mout = <<"-", "2">>

\* C15: a value findNearestWithTolerance returns is an entry of the scale at
\* minimum distance from the value handed in and within the effective
\* tolerance (the one given, or max(half the entry, 2)); null is returned
\* only for an empty scale or when a nearest entry is beyond the tolerance.
C15_NeverBeyondTolerance ==
    (mpc = "done" /\ mop = "findNearestWithTolerance") =>
        LET entries == {mscale[i] : i \in 1..Len(mscale)}
            nearest == {e \in entries :
                          \A f \in entries : Abs(e - mvalue) <= Abs(f - mvalue)}
            Within(e) == IF mtol.given THEN Abs(e - mvalue) <= mtol.value
                         ELSE 2 * Abs(e - mvalue) <= Max(e, 4)
        IN  /\ mnear.kind \in {"null", "value"}
            /\ mnear.kind = "value" => (mnear.value \in nearest /\ Within(mnear.value))
            /\ mnear.kind = "null" => (entries = {} \/ \E e \in nearest : ~Within(e))

\* C15 witness: with the tolerance omitted, a value too far from every entry
\* of a non-empty scale got null.
C15_Witness ==
    /\ mpc = "done" /\ mop = "findNearestWithTolerance"
    /\ ~mtol.given /\ mscale # <<>>
    /\ mnear = NullNearest

\* C16: a value that is an entry of the scale is returned whatever the
\* tolerance argument is.
C16_ExactMatchIgnoresTolerance ==
    (/\ mpc = "done" /\ mop = "findNearestWithTolerance"
     /\ \E i \in 1..Len(mscale) : mscale[i] = mvalue)
        => mnear = Nearest(mvalue)

\* C17: the class fontSizeToTailwind returns is text- followed by the key of
\* the first entry of TEXT_SIZE_SCALE at minimum distance from the size.
C17_FirstNearestFontSize ==
    (mpc = "done" /\ mop = "fontSizeToTailwind") =>
        \E i \in 1..Len(TEXT_SIZE_SCALE) :
            /\ mout = <<"t", "e", "x", "t", "-">> \o TEXT_SIZE_SCALE[i].key
            /\ \A j \in 1..Len(TEXT_SIZE_SCALE) :
                  Abs(TEXT_SIZE_SCALE[i].px - mvalue) <= Abs(TEXT_SIZE_SCALE[j].px - mvalue)
            /\ \A j \in 1..(i - 1) :
                  Abs(TEXT_SIZE_SCALE[i].px - mvalue) < Abs(TEXT_SIZE_SCALE[j].px - mvalue)

\* C17 witness: size 19, as far from 18 as from 20, got text-lg.
C17_Witness ==
    /\ mpc = "done" /\ mop = "fontSizeToTailwind"
    /\ mvalue = 19
    /\ mout = <<"t", "e", "x", "t", "-", "l", "g">>

\* the scale and the value a finished call handed to findClosestIndex
SearchedScale == IF mop = "spacingToTailwind" THEN SPACING_SCALE_PX ELSE mscale
SearchedValue == IF mop = "spacingToTailwind" THEN Abs(mvalue) ELSE mvalue

\* C27: for every non-empty ascending scale and every value, the entry at the
\* index findClosestIndex returns is at the minimum absolute distance from the
\* value over the whole scale, as an exhaustive linear scan finds it.
C27_ClosestIndexIsNearest ==
    (/\ mpc = "done"
     /\ mop \in {"spacingToTailwind", "findNearestWithTolerance"}
     /\ Len(SearchedScale) > 0) =>
        /\ mindex \in 0..(Len(SearchedScale) - 1)
        /\ \A i \in 0..(Len(SearchedScale) - 1) :
              Abs(Elem(SearchedScale, mindex) - SearchedValue)
                  <= Abs(Elem(SearchedScale, i) - SearchedValue)

\* C27 witness: a finished search of a scale with repeated entries for a value
\* strictly between two entries and nearer to the upper one.
C27_Witness ==
    /\ mpc = "done" /\ mop = "findNearestWithTolerance"
    /\ mscale = <<1, 3, 3, 3, 9, 9, 20>>
    /\ mvalue = 7
    /\ mindex = 5

-----------------------------------------------------------------------------
(*       Part IV: the layout source (parseFigmaUrl, fetchFigmaLayout)      *)

\* the printable ASCII characters in code order, from 32 (space) to 126 (~)
Ascii == <<
    " ", "!", "\"", "#", "$", "%", "&", "'", "(", ")", "*", "+", ",", "-",
    ".", "/", "0", "1", "2", "3", "4", "5", "6", "7", "8", "9", ":", ";", "<",
    "=", ">", "?", "@", "A", "B", "C", "D", "E", "F", "G", "H", "I", "J", "K",
    "L", "M", "N", "O", "P", "Q", "R", "S", "T", "U", "V", "W", "X", "Y", "Z",
    "[", "\\", "]", "^", "_", Backtick, "a", "b", "c", "d", "e", "f", "g",
    "h", "i", "j", "k", "l", "m", "n", "o", "p", "q", "r", "s", "t", "u", "v",
    "w", "x", "y", "z", "{", "|", "}", "~" >>

\* the code unit of a character
CharCode(c) ==
    CASE c = "\t" -> 9
      [] c = "\n" -> 10
      [] c = "\r" -> 13
      [] OTHER -> 31 + (CHOOSE k \in 1..Len(Ascii) : Ascii[k] = c)

\* a control character other than tab, line feed and carriage return
ControlChar == "[control]"

\* the character of a code unit below 128
CodeChar(n) ==
    CASE n = 9 -> "\t"
      [] n = 10 -> "\n"
      [] n = 13 -> "\r"
      [] n >= 32 /\ n <= 126 -> Ascii[n - 31]
      [] OTHER -> ControlChar

HexDigits == <<"0", "1", "2", "3", "4", "5", "6", "7", "8", "9",
               "A", "B", "C", "D", "E", "F">>
HexChars == Digit \cup {"a", "b", "c", "d", "e", "f", "A", "B", "C", "D", "E", "F"}
HexVal(c) ==
    CHOOSE v \in 0..15 : HexDigits[v + 1] = c \/ lowerChar(HexDigits[v + 1]) = c

\* the characters encodeURIComponent leaves as they are
Unreserved == AlNum \cup {"-", "_", ".", "!", "~", "*", "'", "(", ")"}

\* encodeURIComponent on text of ASCII characters
encodeURIComponent(s) ==
    LET Enc[i \in 0..Len(s)] ==
            IF i = 0 THEN <<>>
            ELSE Enc[i - 1] \o
                 (IF s[i] \in Unreserved THEN <<s[i]>>
                  ELSE <<"%", HexDigits[(CharCode(s[i]) \div 16) + 1],
                               HexDigits[(CharCode(s[i]) % 16) + 1]>>)
    IN  Enc[Len(s)]

\* what decodeURIComponent returns, or that it threw URIError
Decoded(text) == [ok |-> TRUE, text |-> text]
URIError == [ok |-> FALSE, text |-> <<>>]

\* a decodeURIComponent that hands its argument back unchanged
decodeURIComponent_Identity(s) == Decoded(s)

\* decodeURIComponent: every %XX of a code unit below 128 becomes its
\* character; a % that no two hexadecimal digits follow throws, and so does
\* an escaped byte from 128 on that stands alone (the multi-byte sequences
\* that decode to a character outside ASCII are not among the inputs)
decodeURIComponent(s) ==
    LET Dec[i \in 1..(Len(s) + 1)] ==
            IF i > Len(s) THEN Decoded(<<>>)
            ELSE IF s[i] # "%"
                 THEN IF Dec[i + 1].ok THEN Decoded(<<s[i]>> \o Dec[i + 1].text)
                      ELSE URIError
            ELSE IF ~(At(s, i + 1) \in HexChars /\ At(s, i + 2) \in HexChars)
                 THEN URIError
            ELSE LET code == 16 * HexVal(s[i + 1]) + HexVal(s[i + 2])
                 IN  IF code >= 128 \/ ~Dec[i + 3].ok THEN URIError
                     ELSE Decoded(<<CodeChar(code)>> \o Dec[i + 3].text)
    IN  Dec[1]

L_figmaCom == <<"f", "i", "g", "m", "a", ".", "c", "o", "m", "/">>
L_fileSlash == <<"f", "i", "l", "e", "/">>
L_designSlash == <<"d", "e", "s", "i", "g", "n", "/">>
L_nodeIdEq == <<"n", "o", "d", "e", "-", "i", "d", "=">>
L_wwwFigma == <<"h", "t", "t", "p", "s", ":", "/", "/", "w", "w", "w", ".", "f", "i",
    "g", "m", "a", ".", "c", "o", "m", "/">>
L_apiFiles == <<"h", "t", "t", "p", "s", ":", "/", "/", "a", "p", "i", ".", "f", "i",
    "g", "m", "a", ".", "c", "o", "m", "/", "v", "1", "/", "f", "i", "l", "e",
    "s", "/">>
L_nodesIds == <<"/", "n", "o", "d", "e", "s", "?", "i", "d", "s", "=">>
L_queryNode == <<"?", "n", "o", "d", "e", "-", "i", "d", "=">>
L_queryTypeNode == <<"?", "t", "y", "p", "e", "=", "d", "e", "s", "i", "g", "n", "&", "n",
    "o", "d", "e", "-", "i", "d", "=">>
L_modeDev == <<"&", "m", "o", "d", "e", "=", "d", "e", "v">>

\* the optional nodeId of ParsedFigmaUrl
NoNode == [present |-> FALSE, id |-> <<>>]
Node(id) == [present |-> TRUE, id |-> id]

\* what parseFigmaUrl returns or throws
NotParsed == [kind |-> "none", fileId |-> <<>>, nodeId |-> NoNode, input |-> <<>>]
Parsed(fileId, nodeId) == [kind |-> "ok", fileId |-> fileId, nodeId |-> nodeId, input |-> <<>>]
InvalidFormat(input) == [kind |-> "invalid", fileId |-> <<>>, nodeId |-> NoNode, input |-> input]
ParseURIError == [kind |-> "urierror", fileId |-> <<>>, nodeId |-> NoNode, input |-> <<>>]

\* licenseService.ts 258: /^[a-zA-Z0-9]+$/
isBareFileId(s) == s # <<>> /\ \A i \in 1..Len(s) : s[i] \in AlNum

\* licenseService.ts 265: /figma\.com\/(?:file|design)\/([a-zA-Z0-9]+)/ matches
\* with its group starting at position g
FileMatchAt(s, g) ==
    /\ At(s, g) \in AlNum
    /\ \/ HasAt(s, g - 15, L_figmaCom \o L_fileSlash)
       \/ HasAt(s, g - 17, L_figmaCom \o L_designSlash)

\* licenseService.ts 276: /[?&]node-id=([^&]+)/ matches with its group
\* starting at position g
NodeMatchAt(s, g) ==
    /\ At(s, g - 9) \in {"?", "&"}
    /\ HasAt(s, g - 8, L_nodeIdEq)
    /\ g <= Len(s) /\ s[g] # "&"

\* the first position of a set of positions
First(S) == CHOOSE g \in S : \A h \in S : g <= h

\* a parseFigmaUrl whose error carries the trimmed text
parseFigmaUrl_TrimmedInError(figmaUrl) ==
    LET trimmed == trim(figmaUrl)
        fileAt == {g \in 1..Len(trimmed) : FileMatchAt(trimmed, g)}
        nodeAt == {g \in 1..Len(trimmed) : NodeMatchAt(trimmed, g)}
    IN  IF isBareFileId(trimmed) THEN Parsed(trimmed, NoNode)
        ELSE IF fileAt = {} THEN InvalidFormat(trimmed)
        ELSE LET f == First(fileAt)
                 fileId == Slice(trimmed, f, SkipWhile(trimmed, f, AlNum) - 1)
             IN  IF nodeAt = {} THEN Parsed(fileId, NoNode)
                 ELSE LET n == First(nodeAt)
                          raw == Slice(trimmed, n, SkipUntil(trimmed, n, {"&"}) - 1)
                          nodeId == decodeURIComponent(raw)
                      IN  IF nodeId.ok THEN Parsed(fileId, Node(nodeId.text))
                          ELSE ParseURIError

\* licenseService.ts 253-280
parseFigmaUrl(figmaUrl) ==
    LET trimmed == trim(figmaUrl)
        fileAt == {g \in 1..Len(trimmed) : FileMatchAt(trimmed, g)}
        nodeAt == {g \in 1..Len(trimmed) : NodeMatchAt(trimmed, g)}
    IN  IF isBareFileId(trimmed) THEN Parsed(trimmed, NoNode)
        ELSE IF fileAt = {} THEN InvalidFormat(figmaUrl)
        ELSE LET f == First(fileAt)
                 fileId == Slice(trimmed, f, SkipWhile(trimmed, f, AlNum) - 1)
             IN  IF nodeAt = {} THEN Parsed(fileId, NoNode)
                 ELSE LET n == First(nodeAt)
                          raw == Slice(trimmed, n, SkipUntil(trimmed, n, {"&"}) - 1)
                          nodeId == decodeURIComponent(raw)
                      IN  IF nodeId.ok THEN Parsed(fileId, Node(nodeId.text))
                          ELSE ParseURIError

D_abc123 == <<"a", "b", "c", "1", "2", "3">>
D_Xy9 == <<"X", "y", "9">>
N_1c2 == <<"1", ":", "2">>
N_12d7 == <<"1", "2", "-", "7">>
N_inst == <<"I", "5", ":", "3", ";", "4", ":", "1">>
N_odd == <<"1", "&", "2", " ", "%", "3">>

\* ''
B_Empty ==
    <<>>
\* ' \t'
B_Blank ==
    <<" ", "\t">>
\* ' my file '
B_Words ==
    <<" ", "m", "y", " ", "f", "i", "l", "e", " ">>
\* 'my-file'
B_Dashed ==
    <<"m", "y", "-", "f", "i", "l", "e">>
\* 'https://example.com/file/abc123'
B_OtherHost ==
    <<"h", "t", "t", "p", "s", ":", "/", "/", "e", "x", "a", "m", "p", "l",
    "e", ".", "c", "o", "m", "/", "f", "i", "l", "e", "/", "a", "b", "c", "1",
    "2", "3">>
\* 'https://www.figma.com/proto/abc123/App'
B_Proto ==
    <<"h", "t", "t", "p", "s", ":", "/", "/", "w", "w", "w", ".", "f", "i",
    "g", "m", "a", ".", "c", "o", "m", "/", "p", "r", "o", "t", "o", "/", "a",
    "b", "c", "1", "2", "3", "/", "A", "p", "p">>
\* 'https://www.figma.com/file/'
B_NoId ==
    <<"h", "t", "t", "p", "s", ":", "/", "/", "w", "w", "w", ".", "f", "i",
    "g", "m", "a", ".", "c", "o", "m", "/", "f", "i", "l", "e", "/">>
\* 'figma.com/files/abc123'
B_Files ==
    <<"f", "i", "g", "m", "a", ".", "c", "o", "m", "/", "f", "i", "l", "e",
    "s", "/", "a", "b", "c", "1", "2", "3">>
\* ' https://www.figma.com/design/-/App?node-id=1%3A2\n'
B_DashId ==
    <<" ", "h", "t", "t", "p", "s", ":", "/", "/", "w", "w", "w", ".", "f",
    "i", "g", "m", "a", ".", "c", "o", "m", "/", "d", "e", "s", "i", "g", "n",
    "/", "-", "/", "A", "p", "p", "?", "n", "o", "d", "e", "-", "i", "d", "=",
    "1", "%", "3", "A", "2", "\n">>

\* a figma.com URL of a document, its node named in the node-id parameter
BuildUrl(kind, doc, query, node, rest) ==
    L_wwwFigma \o kind \o doc \o <<"/", "A", "p", "p">> \o query
        \o encodeURIComponent(node) \o rest

DocIds == {D_abc123, D_Xy9}
NodeIds == {N_1c2, N_12d7, N_inst, N_odd}

\* the texts handed to fetchFigmaLayout, each with what it was built from
FigInputs ==
    {[cat |-> "bare", text |-> d, doc |-> d, node |-> NoNode] : d \in DocIds}
    \cup {[cat |-> "bare", text |-> <<" ">> \o d \o <<"\n">>, doc |-> d, node |-> NoNode] :
             d \in DocIds}
    \cup {[cat |-> "url", text |-> BuildUrl(k, d, L_queryNode, n, <<>>),
           doc |-> d, node |-> Node(n)] :
             k \in {L_fileSlash, L_designSlash}, d \in DocIds, n \in NodeIds}
    \cup {[cat |-> "url", text |-> BuildUrl(L_designSlash, d, L_queryTypeNode, n, L_modeDev),
           doc |-> d, node |-> Node(n)] : d \in DocIds, n \in NodeIds}
    \cup {[cat |-> "urlNoNode", text |-> L_wwwFigma \o k \o d \o <<"/", "A", "p", "p">>,
           doc |-> d, node |-> NoNode] :
             k \in {L_fileSlash, L_designSlash}, d \in DocIds}
    \cup {[cat |-> "badEscape", text |-> BuildUrl(L_fileSlash, d, L_queryNode, <<>>, <<"%", "z", "z">>),
           doc |-> d, node |-> NoNode] : d \in DocIds}
    \cup {[cat |-> "malformed", text |-> b, doc |-> <<>>, node |-> NoNode] :
             b \in {B_Empty, B_Blank, B_Words, B_Dashed, B_OtherHost, B_Proto, B_NoId, B_Files, B_DashId}}

\* a lookup that falls back on a placeholder token
tokenOf_Placeholder(config) ==
    IF Truthy(config.figmaToken) THEN config.figmaToken
    ELSE IF Truthy(config.envToken) THEN config.envToken
    ELSE "YOUR_FIGMA_TOKEN"

\* licenseService.ts 290-291: config.get('figmaToken') || process.env.FIGMA_TOKEN
tokenOf(config) ==
    IF Truthy(config.figmaToken) THEN config.figmaToken ELSE config.envToken

\* the figmaToken setting and the FIGMA_TOKEN variable of the environment
FigConfigs == [figmaToken : {Undefined, "", "figd_settings"},
               envToken : {Undefined, "", "figd_env"}]

\* what fetchFigmaLayout returns or throws
NoFetchOutcome == [kind |-> "none", msg |-> "", input |-> <<>>]
FetchedLayout == [kind |-> "ok", msg |-> "", input |-> <<>>]
FetchFailed(msg, input) == [kind |-> "error", msg |-> msg, input |-> input]

MsgNoFigmaToken == "Figma API token is required. "
MsgInvalidFormat == "Invalid Figma URL format: "
MsgURIError == "URI malformed"
MsgFetchFailed == "Failed to fetch Figma layout: "
MsgFigmaApiError == "Failed to fetch Figma layout: Figma API error "

\* String.prototype.replace(/:/g, '-')
replaceColons(s) == [i \in 1..Len(s) |-> IF s[i] = ":" THEN "-" ELSE s[i]]

\* licenseService.ts 308-313, 335-337: the address requested
ApiUrl(fileId, nodeId) ==
    IF nodeId.present /\ nodeId.id # <<>>
    THEN L_apiFiles \o fileId \o L_nodesIds \o encodeURIComponent(replaceColons(nodeId.id))
    ELSE L_apiFiles \o fileId

NoInput == [cat |-> "none", text |-> <<>>, doc |-> <<>>, node |-> NoNode]

InitFig ==
    /\ figConfig \in FigConfigs
    /\ finput \in FigInputs
    /\ fpc = "idle"
    /\ fparsed = NotParsed
    /\ frequests = <<>>
    /\ fresult = NoFetchOutcome

FigIdle ==
    /\ figConfig = [figmaToken |-> Undefined, envToken |-> Undefined]
    /\ finput = NoInput
    /\ fpc = "off"
    /\ fparsed = NotParsed
    /\ frequests = <<>>
    /\ fresult = NoFetchOutcome

\* licenseService.ts 288-321, 335-342: fetchFigmaLayout from its call to its
\* first await: the token check, parseFigmaUrl, and the request sent
FetchStart ==
    /\ fpc = "idle"
    /\ LET token == tokenOf(figConfig)
           p == parseFigmaUrl(finput.text)
       IN  IF ~Truthy(token)
           THEN /\ fresult' = FetchFailed(MsgNoFigmaToken, <<>>)
                /\ fpc' = "done"
                /\ UNCHANGED <<fparsed, frequests>>
           ELSE IF p.kind = "invalid"
           THEN /\ fparsed' = p
                /\ fresult' = FetchFailed(MsgInvalidFormat, p.input)
                /\ fpc' = "done"
                /\ UNCHANGED frequests
           ELSE IF p.kind = "urierror"
           THEN /\ fparsed' = p
                /\ fresult' = FetchFailed(MsgURIError, <<>>)
                /\ fpc' = "done"
                /\ UNCHANGED frequests
           ELSE /\ fparsed' = p
                /\ frequests' = Append(frequests,
                       [url |-> ApiUrl(p.fileId, p.nodeId), token |-> token])
                /\ fpc' = "fetch"
                /\ UNCHANGED fresult
    /\ UNCHANGED <<figConfig, finput>>
    /\ UNCHANGED <<writerVars, genVars, mapVars, nameVars, cmdVars>>

\* licenseService.ts 315-320, 339-344, 358-363: fetch rejects
FetchRejects ==
    /\ fpc = "fetch"
    /\ fresult' = FetchFailed(MsgFetchFailed, <<>>)
    /\ fpc' = "done"
    /\ UNCHANGED <<figConfig, finput, fparsed, frequests>>
    /\ UNCHANGED <<writerVars, genVars, mapVars, nameVars, cmdVars>>

\* licenseService.ts 322-327, 346-351, 358-363: the response is not ok
FetchNotOk ==
    /\ fpc = "fetch"
    /\ fresult' = FetchFailed(MsgFigmaApiError, <<>>)
    /\ fpc' = "done"
    /\ UNCHANGED <<figConfig, finput, fparsed, frequests>>
    /\ UNCHANGED <<writerVars, genVars, mapVars, nameVars, cmdVars>>

\* licenseService.ts 329-333, 353-357: the response is ok and its body is
\* returned
FetchOk ==
    /\ fpc = "fetch"
    /\ fresult' = FetchedLayout
    /\ fpc' = "done"
    /\ UNCHANGED <<figConfig, finput, fparsed, frequests>>
    /\ UNCHANGED <<writerVars, genVars, mapVars, nameVars, cmdVars>>

FigNext == FetchStart \/ FetchRejects \/ FetchNotOk \/ FetchOk

-----------------------------------------------------------------------------
(*                   Claims about the layout source                        *)

\* C18: from a figma.com /file/ or /design/ URL built from a document id and
\* a node id, URL-encoded in the node-id parameter, parseFigmaUrl returns that
\* document id and that node id; from a bare alphanumeric identifier it
\* returns the identifier as document id and no node id.
C18_ParseRoundTrip ==
    fparsed.kind # "none" =>
        /\ finput.cat = "url" => fparsed = Parsed(finput.doc, finput.node)
        /\ finput.cat = "bare" => fparsed = Parsed(finput.doc, NoNode)

\* C18 witness: a URL whose node-id parameter holds escapes was parsed into
\* the document id and the node id I5:3;4:1 it was built from.
C18_Witness ==
    /\ finput.cat = "url"
    /\ \E i \in 1..Len(finput.text) : finput.text[i] = "%"
    /\ finput.node = Node(N_inst)
    /\ fparsed = Parsed(finput.doc, Node(N_inst))

\* C19: for a text no document id can be extracted from, parseFigmaUrl fails
\* with the invalid-format error carrying the text as it was handed in, and
\* fetchFigmaLayout sends no request.
C19_MalformedFailsNoRequest ==
    finput.cat = "malformed" =>
        /\ frequests = <<>>
        /\ fpc # "fetch"
        /\ fresult.kind # "ok"
        /\ fparsed.kind # "none" =>
              /\ fparsed = InvalidFormat(finput.text)
              /\ fresult = FetchFailed(MsgInvalidFormat, finput.text)

\* C19 witness: the padded text ' my file ' was refused with the text itself
\* in the error.
C19_Witness ==
    /\ finput.cat = "malformed"
    /\ finput.text = B_Words
    /\ fpc = "done"
    /\ fresult = FetchFailed(MsgInvalidFormat, B_Words)

\* C20: with no token in the settings and none in the environment,
\* fetchFigmaLayout fails with the missing-token error and has sent no
\* request, whether the reference names a node or a whole document; with no
\* key in the settings and none in the environment, callLLM fails with the
\* missing-key error and no request to a backend is ever pending or answered.
C20_MissingCredentialFailsFast ==
    /\ (/\ fpc # "off"
        /\ ~Truthy(figConfig.figmaToken) /\ ~Truthy(figConfig.envToken)) =>
          /\ frequests = <<>>
          /\ fpc \in {"idle", "done"}
          /\ fpc = "done" => fresult = FetchFailed(MsgNoFigmaToken, <<>>)
    /\ (/\ gpc # "off"
        /\ ~Truthy(aiConfig.aiApiKey) /\ ~Truthy(aiConfig.envApiKey)) =>
          /\ gpc \in {"idle", "done"}
          /\ gresponse = <<>>
          /\ gpc = "done" => gresult = Failed(MsgNoKey)

\* C20 witness: a URL naming a node was handed in with no token anywhere, and
\* the call ended with the missing-token error.
C20_Witness ==
    /\ finput.cat = "url"
    /\ ~Truthy(figConfig.figmaToken) /\ ~Truthy(figConfig.envToken)
    /\ fpc = "done"
    /\ fresult = FetchFailed(MsgNoFigmaToken, <<>>)
    /\ frequests = <<>>

-----------------------------------------------------------------------------
(*      Part V: the writer's companions (codeWriter.ts 213-284)            *)

\* an optional text argument: left out, or a text
Absent == [given |-> FALSE, text |-> <<>>]
Given(text) == [given |-> TRUE, text |-> text]

\* codeWriter.ts 213: defaultName: string = 'component'
L_component == <<"c", "o", "m", "p", "o", "n", "e", "n", "t">>

\* [a-z0-9]
SlugChars == Lower \cup Digit

\* a replacement that takes the characters one at a time
RECURSIVE ReplaceRuns_EachChar(_, _)
ReplaceRuns_EachChar(s, i) ==
    IF i > Len(s) THEN <<>>
    ELSE IF s[i] \in SlugChars THEN <<s[i]>> \o ReplaceRuns_EachChar(s, i + 1)
    ELSE <<"-">> \o ReplaceRuns_EachChar(s, i + 1)

\* codeWriter.ts 221: .replace(/[^a-z0-9]+/g, '-') from position i on
RECURSIVE ReplaceRuns(_, _)
ReplaceRuns(s, i) ==
    IF i > Len(s) THEN <<>>
    ELSE IF s[i] \in SlugChars THEN <<s[i]>> \o ReplaceRuns(s, i + 1)
    ELSE <<"-">> \o ReplaceRuns(s, SkipUntil(s, i, SlugChars))

\* codeWriter.ts 222: .replace(/^-+|-+$/g, '')
StripDashes(s) ==
    LET a == SkipWhile(s, 1, {"-"})
    IN  IF a > Len(s) THEN <<>>
        ELSE LET b == CHOOSE j \in a..Len(s) :
                         s[j] # "-" /\ \A k \in (j + 1)..Len(s) : s[k] = "-"
             IN  Slice(s, a, b)

\* a suggestion that hands the node name back as it came
suggestFileName_Raw(nodeName, defaultName) ==
    IF ~nodeName.given \/ nodeName.text = <<>>
    THEN IF defaultName.given THEN defaultName.text ELSE L_component
    ELSE nodeName.text

\* codeWriter.ts 213-226
suggestFileName(nodeName, defaultName) ==
    LET default == IF defaultName.given THEN defaultName.text ELSE L_component
    IN  IF ~nodeName.given \/ nodeName.text = <<>> THEN default
        ELSE LET cleaned == trim(StripDashes(ReplaceRuns(toLowerCase(nodeName.text), 1)))
             IN  IF cleaned = <<>> THEN default ELSE cleaned

\* codeWriter.ts 231-257: the probe reads the tree as it is
fileExists(fileName, targetFolder) ==
    IF ~workspaceOpen THEN FALSE
    ELSE IF targetFolder \in {Undefined, "components"}
            /\ existsSync(<<"components", fileName>>) THEN TRUE
    ELSE IF targetFolder \in {Undefined, "pages"}
            /\ existsSync(<<"pages", fileName>>) THEN TRUE
    ELSE FALSE

\* codeWriter.ts 262-284
determineTargetFolder ==
    IF ~workspaceOpen THEN "components"
    ELSE IF "components" \in dirs THEN "components"
    ELSE IF "pages" \in dirs THEN "pages"
    ELSE "components"

\* the node names handed to suggestFileName: every text of at most MaxNameLen
\* characters over NameChars, and the names of the documented scenarios
MaxNameLen == 4
NameChars == {"a", "Z", "9", " ", "-", "/", "\\", "."}
N_myDesignFile == <<"m", "y", " ", "d", "e", "s", "i", "g", "n", " ", "f", "i", "l", "e">>
N_MyDesign == <<"M", "y", " ", "D", "e", "s", "i", "g", "n">>
N_page == <<"p", "a", "g", "e">>
NodeNames ==
    UNION {[1..n -> NameChars] : n \in 0..MaxNameLen}
        \cup {N_myDesignFile, N_MyDesign}
DefaultNames == {Absent, Given(N_page)}

InitName ==
    /\ npc = "ready"
    /\ nname \in {Absent} \cup {Given(s) : s \in NodeNames}
    /\ ndefault \in DefaultNames
    /\ nout = <<>>

NameIdle ==
    /\ npc = "off"
    /\ nname = Absent
    /\ ndefault = Absent
    /\ nout = <<>>

\* codeWriter.ts 213-226: one call suggestFileName(nname, ndefault)
NameSuggest ==
    /\ npc = "ready"
    /\ nout' = suggestFileName(nname, ndefault)
    /\ npc' = "done"
    /\ UNCHANGED <<nname, ndefault>>
    /\ UNCHANGED <<writerVars, genVars, mapVars, figVars, cmdVars>>

NameNext == NameSuggest

-----------------------------------------------------------------------------
(*                 Claims about the writer's companions                    *)

\* the maximal runs of [a-z0-9] characters of a text, from position i on
RECURSIVE SlugWords(_, _)
SlugWords(s, i) ==
    LET a == SkipUntil(s, i, SlugChars)
    IN  IF a > Len(s) THEN <<>>
        ELSE LET b == SkipWhile(s, a, SlugChars)
             IN  <<Slice(s, a, b - 1)>> \o SlugWords(s, b)

RECURSIVE JoinDashed(_)
JoinDashed(words) ==
    IF words = <<>> THEN <<>>
    ELSE IF Len(words) = 1 THEN words[1]
    ELSE words[1] \o <<"-">> \o JoinDashed(Tail(words))

\* [a-z0-9]+(-[a-z0-9]+)*
MatchesSlug(s) ==
    /\ s # <<>>
    /\ \A i \in 1..Len(s) : s[i] \in SlugChars \cup {"-"}
    /\ s[1] # "-" /\ s[Len(s)] # "-"
    /\ \A i \in 1..(Len(s) - 1) : ~(s[i] = "-" /\ s[i + 1] = "-")

\* C24: suggestFileName returns the lower-cased [a-z0-9] runs of the node name
\* joined by single dashes, without a leading or trailing dash, and the default
\* name when there is no such run: 'my design file' yields 'my-design-file',
\* the empty name yields 'component', and every result is the default name or
\* matches [a-z0-9]+(-[a-z0-9]+)*.
C24_SuggestedNameIsSlug ==
    npc = "done" =>
        LET default == IF ndefault.given THEN ndefault.text ELSE L_component
            words == SlugWords(toLowerCase(nname.text), 1)
        IN  /\ nout = IF words = <<>> THEN default ELSE JoinDashed(words)
            /\ (nname = Given(N_myDesignFile)) =>
                  nout = <<"m", "y", "-", "d", "e", "s", "i", "g", "n", "-",
                           "f", "i", "l", "e">>
            /\ (nname = Given(<<>>) /\ ~ndefault.given) => nout = L_component
            /\ nout = default \/ MatchesSlug(nout)

\* C24 witness: a name with capitals, a run of two separators in the middle
\* and a trailing separator has been turned into its slug.
C24_Witness ==
    /\ npc = "done"
    /\ nname = Given(<<"Z", "/", ".", "a">>)
    /\ nout = <<"z", "-", "a">>

\* C28: whenever a writeJSXCode invocation has ended and the tree is as it was
\* before the call, fileExists for the same name and folder answers true
\* exactly when the invocation failed with 'File already exists'.
C28_ProbeAgreesWithWriter ==
    \A p \in Procs :
        (pc[p] = "done" /\ files = files0) =>
            (fileExists(opt[p].fileName, opt[p].targetFolder)
                <=> (result[p].kind = "error" /\ result[p].msg = MsgAlreadyExists))

-----------------------------------------------------------------------------
(*   Part VI: the generateFromFigma command (commands/generateFromFigma.ts) *)
(*                                                                         *)
(* One run of the command against the workspace tree of Part I and the     *)
(* settings of Parts II and IV.  The steps of the pipeline are the         *)
(* functions of the earlier parts, applied to the run's own values.        *)

\* String.prototype.includes
includes(s, lit) == \E i \in 1..Len(s) : HasAt(s, i, lit)

\* licenseService.ts 125-150: scanProject fails when a directory can not be read
MsgScanFailed == "scandir failed"

\* the text of each error message, character by character
MessageText(msg) ==
    CASE msg = MsgNoFigmaToken ->
         \* 'Figma API token is required. Please set figma-to-html.figmaToken in VS Code settings or FIGMA_TOKEN environment variable. Get your token from: https://www.figma.com/developers/api#access-tokens'
         <<"F", "i", "g", "m", "a", " ", "A", "P", "I", " ", "t", "o", "k",
         "e", "n", " ", "i", "s", " ", "r", "e", "q", "u", "i", "r", "e",
         "d", ".", " ", "P", "l", "e", "a", "s", "e", " ", "s", "e", "t",
         " ", "f", "i", "g", "m", "a", "-", "t", "o", "-", "h", "t", "m",
         "l", ".", "f", "i", "g", "m", "a", "T", "o", "k", "e", "n", " ",
         "i", "n", " ", "V", "S", " ", "C", "o", "d", "e", " ", "s", "e",
         "t", "t", "i", "n", "g", "s", " ", "o", "r", " ", "F", "I", "G",
         "M", "A", "_", "T", "O", "K", "E", "N", " ", "e", "n", "v", "i",
         "r", "o", "n", "m", "e", "n", "t", " ", "v", "a", "r", "i", "a",
         "b", "l", "e", ".", " ", "G", "e", "t", " ", "y", "o", "u", "r",
         " ", "t", "o", "k", "e", "n", " ", "f", "r", "o", "m", ":", " ",
         "h", "t", "t", "p", "s", ":", "/", "/", "w", "w", "w", ".", "f",
         "i", "g", "m", "a", ".", "c", "o", "m", "/", "d", "e", "v", "e",
         "l", "o", "p", "e", "r", "s", "/", "a", "p", "i", "#", "a", "c",
         "c", "e", "s", "s", "-", "t", "o", "k", "e", "n", "s">>
      [] msg = MsgInvalidFormat ->
         \* 'Invalid Figma URL format: '
         <<"I", "n", "v", "a", "l", "i", "d", " ", "F", "i", "g", "m", "a",
         " ", "U", "R", "L", " ", "f", "o", "r", "m", "a", "t", ":", " ">>
      [] msg = MsgURIError ->
         \* 'URI malformed'
         <<"U", "R", "I", " ", "m", "a", "l", "f", "o", "r", "m", "e", "d">>
      [] msg = MsgFetchFailed ->
         \* 'Failed to fetch Figma layout: fetch failed'
         <<"F", "a", "i", "l", "e", "d", " ", "t", "o", " ", "f", "e", "t",
         "c", "h", " ", "F", "i", "g", "m", "a", " ", "l", "a", "y", "o",
         "u", "t", ":", " ", "f", "e", "t", "c", "h", " ", "f", "a", "i",
         "l", "e", "d">>
      [] msg = MsgFigmaApiError ->
         \* 'Failed to fetch Figma layout: Figma API error (403): Forbidden'
         <<"F", "a", "i", "l", "e", "d", " ", "t", "o", " ", "f", "e", "t",
         "c", "h", " ", "F", "i", "g", "m", "a", " ", "l", "a", "y", "o",
         "u", "t", ":", " ", "F", "i", "g", "m", "a", " ", "A", "P", "I",
         " ", "e", "r", "r", "o", "r", " ", "(", "4", "0", "3", ")", ":",
         " ", "F", "o", "r", "b", "i", "d", "d", "e", "n">>
      [] msg = MsgNoKey ->
         \* 'AI API key not configured. Please set figma-to-html.aiApiKey in VS Code settings or OPENAI_API_KEY environment variable.'
         <<"A", "I", " ", "A", "P", "I", " ", "k", "e", "y", " ", "n", "o",
         "t", " ", "c", "o", "n", "f", "i", "g", "u", "r", "e", "d", ".",
         " ", "P", "l", "e", "a", "s", "e", " ", "s", "e", "t", " ", "f",
         "i", "g", "m", "a", "-", "t", "o", "-", "h", "t", "m", "l", ".",
         "a", "i", "A", "p", "i", "K", "e", "y", " ", "i", "n", " ", "V",
         "S", " ", "C", "o", "d", "e", " ", "s", "e", "t", "t", "i", "n",
         "g", "s", " ", "o", "r", " ", "O", "P", "E", "N", "A", "I", "_",
         "A", "P", "I", "_", "K", "E", "Y", " ", "e", "n", "v", "i", "r",
         "o", "n", "m", "e", "n", "t", " ", "v", "a", "r", "i", "a", "b",
         "l", "e", ".">>
      [] msg = MsgUnsupported ->
         \* 'Failed to call AI service: Unsupported AI provider: cohere'
         <<"F", "a", "i", "l", "e", "d", " ", "t", "o", " ", "c", "a", "l",
         "l", " ", "A", "I", " ", "s", "e", "r", "v", "i", "c", "e", ":",
         " ", "U", "n", "s", "u", "p", "p", "o", "r", "t", "e", "d", " ",
         "A", "I", " ", "p", "r", "o", "v", "i", "d", "e", "r", ":", " ",
         "c", "o", "h", "e", "r", "e">>
      [] msg = MsgApiError ->
         \* 'Failed to call AI service: OpenAI API error: Service Unavailable'
         <<"F", "a", "i", "l", "e", "d", " ", "t", "o", " ", "c", "a", "l",
         "l", " ", "A", "I", " ", "s", "e", "r", "v", "i", "c", "e", ":",
         " ", "O", "p", "e", "n", "A", "I", " ", "A", "P", "I", " ", "e",
         "r", "r", "o", "r", ":", " ", "S", "e", "r", "v", "i", "c", "e",
         " ", "U", "n", "a", "v", "a", "i", "l", "a", "b", "l", "e">>
      [] msg = MsgNoResponse ->
         \* 'Failed to call AI service: No response from OpenAI API'
         <<"F", "a", "i", "l", "e", "d", " ", "t", "o", " ", "c", "a", "l",
         "l", " ", "A", "I", " ", "s", "e", "r", "v", "i", "c", "e", ":",
         " ", "N", "o", " ", "r", "e", "s", "p", "o", "n", "s", "e", " ",
         "f", "r", "o", "m", " ", "O", "p", "e", "n", "A", "I", " ", "A",
         "P", "I">>
      [] msg = RejectMessage(1) ->
         \* 'Rejected: Output is empty. JSX code is required.'
         <<"R", "e", "j", "e", "c", "t", "e", "d", ":", " ", "O", "u", "t",
         "p", "u", "t", " ", "i", "s", " ", "e", "m", "p", "t", "y", ".",
         " ", "J", "S", "X", " ", "c", "o", "d", "e", " ", "i", "s", " ",
         "r", "e", "q", "u", "i", "r", "e", "d", ".">>
      [] msg = RejectMessage(2) ->
         \* 'Rejected: Output does not contain valid JSX code. Expected JSX elements.'
         <<"R", "e", "j", "e", "c", "t", "e", "d", ":", " ", "O", "u", "t",
         "p", "u", "t", " ", "d", "o", "e", "s", " ", "n", "o", "t", " ",
         "c", "o", "n", "t", "a", "i", "n", " ", "v", "a", "l", "i", "d",
         " ", "J", "S", "X", " ", "c", "o", "d", "e", ".", " ", "E", "x",
         "p", "e", "c", "t", "e", "d", " ", "J", "S", "X", " ", "e", "l",
         "e", "m", "e", "n", "t", "s", ".">>
      [] msg = RejectMessage(3) ->
         \* 'Rejected: Output contains inline styles (style={{ }}). Only Tailwind CSS classes are allowed.'
         <<"R", "e", "j", "e", "c", "t", "e", "d", ":", " ", "O", "u", "t",
         "p", "u", "t", " ", "c", "o", "n", "t", "a", "i", "n", "s", " ",
         "i", "n", "l", "i", "n", "e", " ", "s", "t", "y", "l", "e", "s",
         " ", "(", "s", "t", "y", "l", "e", "=", "{", "{", " ", "}", "}",
         ")", ".", " ", "O", "n", "l", "y", " ", "T", "a", "i", "l", "w",
         "i", "n", "d", " ", "C", "S", "S", " ", "c", "l", "a", "s", "s",
         "e", "s", " ", "a", "r", "e", " ", "a", "l", "l", "o", "w", "e",
         "d", ".">>
      [] msg = RejectMessage(4) ->
         \* 'Rejected: Output contains inline style strings (style='...'). Only Tailwind CSS classes are allowed.'
         <<"R", "e", "j", "e", "c", "t", "e", "d", ":", " ", "O", "u", "t",
         "p", "u", "t", " ", "c", "o", "n", "t", "a", "i", "n", "s", " ",
         "i", "n", "l", "i", "n", "e", " ", "s", "t", "y", "l", "e", " ",
         "s", "t", "r", "i", "n", "g", "s", " ", "(", "s", "t", "y", "l",
         "e", "=", "\"", ".", ".", ".", "\"", ")", ".", " ", "O", "n",
         "l", "y", " ", "T", "a", "i", "l", "w", "i", "n", "d", " ", "C",
         "S", "S", " ", "c", "l", "a", "s", "s", "e", "s", " ", "a", "r",
         "e", " ", "a", "l", "l", "o", "w", "e", "d", ".">>
      [] msg = RejectMessage(5) ->
         \* 'Rejected: Output contains <style> tags. Only Tailwind CSS classes are allowed.'
         <<"R", "e", "j", "e", "c", "t", "e", "d", ":", " ", "O", "u", "t",
         "p", "u", "t", " ", "c", "o", "n", "t", "a", "i", "n", "s", " ",
         "<", "s", "t", "y", "l", "e", ">", " ", "t", "a", "g", "s", ".",
         " ", "O", "n", "l", "y", " ", "T", "a", "i", "l", "w", "i", "n",
         "d", " ", "C", "S", "S", " ", "c", "l", "a", "s", "s", "e", "s",
         " ", "a", "r", "e", " ", "a", "l", "l", "o", "w", "e", "d", ".">>
      [] msg = RejectMessage(6) ->
         \* 'Rejected: Output contains CSS-in-JS patterns. Only Tailwind CSS classes are allowed.'
         <<"R", "e", "j", "e", "c", "t", "e", "d", ":", " ", "O", "u", "t",
         "p", "u", "t", " ", "c", "o", "n", "t", "a", "i", "n", "s", " ",
         "C", "S", "S", "-", "i", "n", "-", "J", "S", " ", "p", "a", "t",
         "t", "e", "r", "n", "s", ".", " ", "O", "n", "l", "y", " ", "T",
         "a", "i", "l", "w", "i", "n", "d", " ", "C", "S", "S", " ", "c",
         "l", "a", "s", "s", "e", "s", " ", "a", "r", "e", " ", "a", "l",
         "l", "o", "w", "e", "d", ".">>
      [] msg = RejectMessage(7) ->
         \* 'Rejected: Output contains CSS-like syntax in className. Only Tailwind utility classes are allowed.'
         <<"R", "e", "j", "e", "c", "t", "e", "d", ":", " ", "O", "u", "t",
         "p", "u", "t", " ", "c", "o", "n", "t", "a", "i", "n", "s", " ",
         "C", "S", "S", "-", "l", "i", "k", "e", " ", "s", "y", "n", "t",
         "a", "x", " ", "i", "n", " ", "c", "l", "a", "s", "s", "N", "a",
         "m", "e", ".", " ", "O", "n", "l", "y", " ", "T", "a", "i", "l",
         "w", "i", "n", "d", " ", "u", "t", "i", "l", "i", "t", "y", " ",
         "c", "l", "a", "s", "s", "e", "s", " ", "a", "r", "e", " ", "a",
         "l", "l", "o", "w", "e", "d", ".">>
      [] msg = RejectMessage(8) ->
         \* 'Rejected: Output contains CSS imports. Only Tailwind CSS classes are allowed.'
         <<"R", "e", "j", "e", "c", "t", "e", "d", ":", " ", "O", "u", "t",
         "p", "u", "t", " ", "c", "o", "n", "t", "a", "i", "n", "s", " ",
         "C", "S", "S", " ", "i", "m", "p", "o", "r", "t", "s", ".", " ",
         "O", "n", "l", "y", " ", "T", "a", "i", "l", "w", "i", "n", "d",
         " ", "C", "S", "S", " ", "c", "l", "a", "s", "s", "e", "s", " ",
         "a", "r", "e", " ", "a", "l", "l", "o", "w", "e", "d", ".">>
      [] msg = RejectMessage(9) ->
         \* 'Rejected: Output contains CSS modules. Only Tailwind CSS classes are allowed.'
         <<"R", "e", "j", "e", "c", "t", "e", "d", ":", " ", "O", "u", "t",
         "p", "u", "t", " ", "c", "o", "n", "t", "a", "i", "n", "s", " ",
         "C", "S", "S", " ", "m", "o", "d", "u", "l", "e", "s", ".", " ",
         "O", "n", "l", "y", " ", "T", "a", "i", "l", "w", "i", "n", "d",
         " ", "C", "S", "S", " ", "c", "l", "a", "s", "s", "e", "s", " ",
         "a", "r", "e", " ", "a", "l", "l", "o", "w", "e", "d", ".">>
      [] msg = RejectMessage(10) ->
         \* 'Rejected: Output contains require() CSS imports. Only Tailwind CSS classes are allowed.'
         <<"R", "e", "j", "e", "c", "t", "e", "d", ":", " ", "O", "u", "t",
         "p", "u", "t", " ", "c", "o", "n", "t", "a", "i", "n", "s", " ",
         "r", "e", "q", "u", "i", "r", "e", "(", ")", " ", "C", "S", "S",
         " ", "i", "m", "p", "o", "r", "t", "s", ".", " ", "O", "n", "l",
         "y", " ", "T", "a", "i", "l", "w", "i", "n", "d", " ", "C", "S",
         "S", " ", "c", "l", "a", "s", "s", "e", "s", " ", "a", "r", "e",
         " ", "a", "l", "l", "o", "w", "e", "d", ".">>
      [] msg = MsgNotJsx ->
         \* 'Rejected: Output does not appear to be valid JSX code.'
         <<"R", "e", "j", "e", "c", "t", "e", "d", ":", " ", "O", "u", "t",
         "p", "u", "t", " ", "d", "o", "e", "s", " ", "n", "o", "t", " ",
         "a", "p", "p", "e", "a", "r", " ", "t", "o", " ", "b", "e", " ",
         "v", "a", "l", "i", "d", " ", "J", "S", "X", " ", "c", "o", "d",
         "e", ".">>
      [] msg = MsgAlreadyExists ->
         \* 'File already exists: '
         <<"F", "i", "l", "e", " ", "a", "l", "r", "e", "a", "d", "y", " ",
         "e", "x", "i", "s", "t", "s", ":", " ">>
      [] msg = MsgWriteFailed ->
         \* 'EACCES: permission denied, open'
         <<"E", "A", "C", "C", "E", "S", ":", " ", "p", "e", "r", "m", "i",
         "s", "s", "i", "o", "n", " ", "d", "e", "n", "i", "e", "d", ",",
         " ", "o", "p", "e", "n">>
      [] msg = MsgScanFailed ->
         \* 'EACCES: permission denied, scandir'
         <<"E", "A", "C", "C", "E", "S", ":", " ", "p", "e", "r", "m", "i",
         "s", "s", "i", "o", "n", " ", "d", "e", "n", "i", "e", "d", ",",
         " ", "s", "c", "a", "n", "d", "i", "r">>

\* 'already exists'
L_alreadyExists ==
    <<"a", "l", "r", "e", "a", "d", "y", " ", "e", "x", "i", "s", "t", "s">>

\* 'Rejected:'
L_rejectedColon ==
    <<"R", "e", "j", "e", "c", "t", "e", "d", ":">>

\* 'API key'
L_apiKey ==
    <<"A", "P", "I", " ", "k", "e", "y">>

\* '. Cannot overwrite existing files.'
T_cannotOverwrite ==
    <<".", " ", "C", "a", "n", "n", "o", "t", " ", "o", "v", "e", "r", "w",
    "r", "i", "t", "e", " ", "e", "x", "i", "s", "t", "i", "n", "g", " ",
    "f", "i", "l", "e", "s", ".">>

\* 'Code generation failed: '
T_codeGenFailed ==
    <<"C", "o", "d", "e", " ", "g", "e", "n", "e", "r", "a", "t", "i", "o",
    "n", " ", "f", "a", "i", "l", "e", "d", ":", " ">>

\* '. Please check your AI service configuration.'
T_checkAiConfig ==
    <<".", " ", "P", "l", "e", "a", "s", "e", " ", "c", "h", "e", "c", "k",
    " ", "y", "o", "u", "r", " ", "A", "I", " ", "s", "e", "r", "v", "i",
    "c", "e", " ", "c", "o", "n", "f", "i", "g", "u", "r", "a", "t", "i",
    "o", "n", ".">>

\* '. Please configure your AI API key in VS Code settings.'
T_configureKey ==
    <<".", " ", "P", "l", "e", "a", "s", "e", " ", "c", "o", "n", "f", "i",
    "g", "u", "r", "e", " ", "y", "o", "u", "r", " ", "A", "I", " ", "A",
    "P", "I", " ", "k", "e", "y", " ", "i", "n", " ", "V", "S", " ", "C",
    "o", "d", "e", " ", "s", "e", "t", "t", "i", "n", "g", "s", ".">>

\* 'Error: '
T_errorColon ==
    <<"E", "r", "r", "o", "r", ":", " ">>

\* 'No workspace folder found. Please open a workspace first.'
T_noWorkspaceOpen ==
    <<"N", "o", " ", "w", "o", "r", "k", "s", "p", "a", "c", "e", " ", "f",
    "o", "l", "d", "e", "r", " ", "f", "o", "u", "n", "d", ".", " ", "P",
    "l", "e", "a", "s", "e", " ", "o", "p", "e", "n", " ", "a", " ", "w",
    "o", "r", "k", "s", "p", "a", "c", "e", " ", "f", "i", "r", "s", "t",
    ".">>

\* 'Create new file: '
T_createNewFile ==
    <<"C", "r", "e", "a", "t", "e", " ", "n", "e", "w", " ", "f", "i", "l",
    "e", ":", " ">>

\* 'Generated component saved to '
T_savedTo ==
    <<"G", "e", "n", "e", "r", "a", "t", "e", "d", " ", "c", "o", "m", "p",
    "o", "n", "e", "n", "t", " ", "s", "a", "v", "e", "d", " ", "t", "o",
    " ">>

\* 'Successfully generated component: '
T_generated ==
    <<"S", "u", "c", "c", "e", "s", "s", "f", "u", "l", "l", "y", " ", "g",
    "e", "n", "e", "r", "a", "t", "e", "d", " ", "c", "o", "m", "p", "o",
    "n", "e", "n", "t", ":", " ">>

\* 'components'
T_components ==
    <<"c", "o", "m", "p", "o", "n", "e", "n", "t", "s">>

\* 'pages'
T_pages ==
    <<"p", "a", "g", "e", "s">>

\* 'figma-to-html.aiApiKey'
S_aiApiKey ==
    <<"f", "i", "g", "m", "a", "-", "t", "o", "-", "h", "t", "m", "l", ".",
    "a", "i", "A", "p", "i", "K", "e", "y">>

\* 'Card'
N_Card ==
    <<"C", "a", "r", "d">>

\* 'card.tsx'
N_cardTsx ==
    <<"c", "a", "r", "d", ".", "t", "s", "x">>

\* '../../x'
N_escape ==
    <<".", ".", "/", ".", ".", "/", "x">>

\* '..\Card'
N_backslash ==
    <<".", ".", "\\", "C", "a", "r", "d">>

\* '..'
N_dotdot ==
    <<".", ".">>

\* 'Home'
N_Home ==
    <<"H", "o", "m", "e">>

FolderText(folder) == IF folder = "pages" THEN T_pages ELSE T_components

\* an Error object: the message as the model names it and as it reads
NoError == [msg |-> "", text |-> <<>>]
ErrorOf(msg, detail) == [msg |-> msg, text |-> MessageText(msg) \o detail]

\* a notification: its kind, its text, the items it offers, and the setting
\* its 'Open Settings' item opens
Note(kind, text, items, opens) ==
    [kind |-> kind, text |-> text, items |-> items, opens |-> opens]

\* something opened for the user: a document or a settings page, and the
\* notification whose item asked for it (0 when none did)
Opened(kind, target, note) == [kind |-> kind, target |-> target, note |-> note]

\* generateFromFigma.ts 113-147: every error the run throws is an Error
handleError(error) ==
    IF includes(error.text, L_alreadyExists)
    THEN Note("warning", error.text, {"Show Diff", "Change File Name"}, <<>>)
    ELSE IF includes(error.text, L_rejectedColon)
    THEN Note("error", T_codeGenFailed \o error.text \o T_checkAiConfig, {}, <<>>)
    ELSE IF includes(error.text, L_apiKey)
    THEN Note("error", error.text \o T_configureKey, {"Open Settings"},
              S_aiApiKey)
    ELSE Note("error", T_errorColon \o error.text, {}, <<>>)

\* the pipeline steps, in the order of the source
Steps == <<"scan", "fetch", "generate", "name", "folder", "write">>

\* a run that goes on with the next step when a step has thrown
AfterFailure_Continue(step) ==
    CASE step = "scan" -> "fetch"
      [] step = "fetch" -> "generate"
      [] step = "generate" -> "derive"
      [] OTHER -> "inner_catch"

\* generateFromFigma.ts 44-102: an await that rejects leaves the try block
\* for its catch clause
AfterFailure(step) == "inner_catch"

\* a step throws
Raise(step, error) ==
    /\ cerror' = error
    /\ cpc' = AfterFailure(step)

Started(step) == <<step, "start">>
Ended(step)   == <<step, "end">>
Aborted(step) == <<step, "fail">>

\* a command that reports success whatever writeJSXCode returned
ReportsSuccess_Always(fileUri) == TRUE

\* generateFromFigma.ts 90: if (fileUri)
ReportsSuccess(fileUri) == fileUri.kind = "uri"

\* generateFromFigma.ts 84-88: the options writeJSXCode is called with
CmdShowDiff == "false"

\* generateFromFigma.ts 76: name || title || 'component'
figmaName(layout) ==
    IF layout.name.given /\ layout.name.text # <<>> THEN layout.name.text
    ELSE IF layout.title.given /\ layout.title.text # <<>> THEN layout.title.text
    ELSE L_component

\* what the input box resolves to: dismissed, a bare document id, a URL with a
\* node id, words that are no reference, a URL with a broken escape
CmdInputs ==
    {Absent, Given(D_abc123),
     Given(BuildUrl(L_designSlash, D_Xy9, L_queryNode, N_1c2, <<>>)),
     Given(B_Words),
     Given(BuildUrl(L_fileSlash, D_abc123, L_queryNode, <<>>, <<"%", "z", "z">>))}

\* the layouts the Figma API answers with: their name and title fields
NoLayout == [name |-> Absent, title |-> Absent]
Layouts ==
    {[name |-> Given(n), title |-> Absent] :
        n \in {N_Card, N_MyDesign, N_escape, N_backslash, N_dotdot}}
    \cup {[name |-> n, title |-> t] :
        n \in {Absent, Given(<<>>)}, t \in {Absent, Given(N_Home)}}

\* what the generative backend answers with
CmdAnswers == {<<>>, F_Div, L_fence \o <<"\n">> \o F_P \o <<"\n">> \o L_fence,
               F_Div \o <<"\n">> \o F_StyleObj, F_Prose, F_Blank}

\* the settings of a run
CmdFigConfigs == {c \in FigConfigs :
                    /\ c.figmaToken \in {Undefined, "figd_settings"}
                    /\ c.envToken \in {Undefined, "figd_env"}
                    /\ ~(Truthy(c.figmaToken) /\ Truthy(c.envToken))}
CmdAiConfigs == {c \in AiConfigs :
                    \/ c.aiApiKey = "sk-key" /\ c.envApiKey = Undefined
                    \/ c.aiApiKey = "" /\ c.aiProvider = "openai"}

NoWrite == [code |-> <<>>, options |-> NoOpt]

CmdIdle ==
    /\ cpc = "off"
    /\ cinput = Absent
    /\ clayout = NoLayout
    /\ ccode = <<>>
    /\ cwrite = NoWrite
    /\ canswer = "none"
    /\ cerror = NoError
    /\ cnotes = <<>>
    /\ copened = <<>>
    /\ csteps = <<>>
    /\ cwritten = <<>>
    /\ cpreviews = <<>>

\* the trees a run can find: either folder may exist, and may hold card.tsx
InitCmd ==
    /\ workspaceOpen \in BOOLEAN
    /\ dirs \in SUBSET TargetFolders
    /\ files \in {<<>>} \cup {[q \in {<<f, N_cardTsx>>} |-> "old"] : f \in dirs}
    /\ (~workspaceOpen => files = <<>> /\ dirs = {})
    /\ temps = {} /\ timers = {} /\ shown = {}
    /\ pc = [p \in Procs |-> "off"]
    /\ opt = [p \in Procs |-> NoOpt]
    /\ loc = [p \in Procs |-> NoLoc]
    /\ answer = [p \in Procs |-> "none"]
    /\ result = [p \in Procs |-> NoResult]
    /\ existedAtCall = [p \in Procs |-> FALSE]
    /\ created = {} /\ scheduled = {}
    /\ dirs0 = dirs /\ files0 = files
    /\ aiConfig \in CmdAiConfigs
    /\ gpc = "off" /\ gparts = <<>> /\ gresponse = <<>> /\ gresult = NoOutcome
    /\ figConfig \in CmdFigConfigs
    /\ finput = NoInput /\ fpc = "off" /\ fparsed = NotParsed
    /\ frequests = <<>> /\ fresult = NoFetchOutcome
    /\ MapIdle /\ NameIdle
    /\ cpc = "idle"
    /\ cinput = Absent
    /\ clayout = NoLayout
    /\ ccode = <<>>
    /\ cwrite = NoWrite
    /\ canswer = "none"
    /\ cerror = NoError
    /\ cnotes = <<>>
    /\ copened = <<>>
    /\ csteps = <<>>
    /\ cwritten = <<>>
    /\ cpreviews = <<>>

\* what a run of the command leaves alone in the other parts
cmdFrame ==
    <<workspaceOpen, temps, timers, shown, pc, opt, loc, answer, result,
      existedAtCall, created, scheduled, dirs0, files0,
      aiConfig, gpc, gparts, gresponse, gresult,
      figConfig, fpc, finput, fparsed, frequests, fresult,
      mapVars, nameVars>>

\* generateFromFigma.ts 10-17: the workspace check
CmdStart ==
    /\ cpc = "idle"
    /\ IF ~workspaceOpen
       THEN /\ cnotes' = Append(cnotes, Note("error", T_noWorkspaceOpen, {}, <<>>))
            /\ cpc' = "done"
       ELSE /\ cpc' = "prompt"
            /\ UNCHANGED cnotes
    /\ UNCHANGED <<cinput, clayout, ccode, cwrite, canswer, cerror, copened,
                   csteps, cwritten, cpreviews, dirs, files>>
    /\ UNCHANGED cmdFrame

\* generateFromFigma.ts 20-47: the input box resolves; a dismissed box ends
\* the run, a text starts the progress callback and its first step
CmdPrompt ==
    /\ cpc = "prompt"
    /\ \E typed \in CmdInputs :
         /\ cinput' = typed
         /\ IF ~typed.given \/ typed.text = <<>>
            THEN cpc' = "done" /\ UNCHANGED csteps
            ELSE cpc' = "scan" /\ csteps' = Append(csteps, Started("scan"))
    /\ UNCHANGED <<clayout, ccode, cwrite, canswer, cerror, cnotes, copened,
                   cwritten, cpreviews, dirs, files>>
    /\ UNCHANGED cmdFrame

\* generateFromFigma.ts 47: scanProject rejects
CmdScanFails ==
    /\ cpc = "scan"
    /\ csteps' = Append(csteps, Aborted("scan"))
    /\ Raise("scan", ErrorOf(MsgScanFailed, <<>>))
    /\ UNCHANGED <<cinput, clayout, ccode, cwrite, canswer, cnotes, copened,
                   cwritten, cpreviews, dirs, files>>
    /\ UNCHANGED cmdFrame

\* generateFromFigma.ts 47-51, licenseService.ts 288-314: scanProject
\* returns and fetchFigmaLayout runs to its request: the token check and
\* parseFigmaUrl
CmdScanOk ==
    /\ cpc = "scan"
    /\ LET token == tokenOf(figConfig)
           p == parseFigmaUrl(cinput.text)
           begun == csteps \o <<Ended("scan"), Started("fetch")>>
       IN  IF ~Truthy(token)
           THEN /\ csteps' = Append(begun, Aborted("fetch"))
                /\ Raise("fetch", ErrorOf(MsgNoFigmaToken, <<>>))
           ELSE IF p.kind = "invalid"
           THEN /\ csteps' = Append(begun, Aborted("fetch"))
                /\ Raise("fetch", ErrorOf(MsgInvalidFormat, p.input))
           ELSE IF p.kind = "urierror"
           THEN /\ csteps' = Append(begun, Aborted("fetch"))
                /\ Raise("fetch", ErrorOf(MsgURIError, <<>>))
           ELSE /\ csteps' = begun
                /\ cpc' = "fetch"
                /\ UNCHANGED cerror
    /\ UNCHANGED <<cinput, clayout, ccode, cwrite, canswer, cnotes, copened,
                   cwritten, cpreviews, dirs, files>>
    /\ UNCHANGED cmdFrame

\* licenseService.ts 314-327, 358-363: the request rejects or is refused
CmdFetchFails ==
    /\ cpc = "fetch"
    /\ \E msg \in {MsgFetchFailed, MsgFigmaApiError} :
         /\ csteps' = Append(csteps, Aborted("fetch"))
         /\ Raise("fetch", ErrorOf(msg, <<>>))
    /\ UNCHANGED <<cinput, clayout, ccode, cwrite, canswer, cnotes, copened,
                   cwritten, cpreviews, dirs, files>>
    /\ UNCHANGED cmdFrame

\* generateFromFigma.ts 51-73, aiService.ts 31-33, 68-85: the layout arrives
\* and generateJSXFromFigma runs to its request: the key and provider checks
CmdFetchOk ==
    /\ cpc = "fetch"
    /\ \E layout \in Layouts :
         LET begun == csteps \o <<Ended("fetch"), Started("generate")>>
         IN  /\ clayout' = layout
             /\ IF ~Truthy(apiKeyOf(aiConfig))
                THEN /\ csteps' = Append(begun, Aborted("generate"))
                     /\ Raise("generate", ErrorOf(MsgNoKey, <<>>))
                ELSE IF aiConfig.aiProvider \notin {"openai", "anthropic"}
                THEN /\ csteps' = Append(begun, Aborted("generate"))
                     /\ Raise("generate", ErrorOf(MsgUnsupported, <<>>))
                ELSE /\ csteps' = begun
                     /\ cpc' = "generate"
                     /\ UNCHANGED cerror
    /\ UNCHANGED <<cinput, ccode, cwrite, canswer, cnotes, copened,
                   cwritten, cpreviews, dirs, files>>
    /\ UNCHANGED cmdFrame

\* aiService.ts 125-128, 172-175, 86-88: the backend refuses the request
CmdGenFails ==
    /\ cpc = "generate"
    /\ csteps' = Append(csteps, Aborted("generate"))
    /\ Raise("generate", ErrorOf(MsgApiError, <<>>))
    /\ UNCHANGED <<cinput, clayout, ccode, cwrite, canswer, cnotes, copened,
                   cwritten, cpreviews, dirs, files>>
    /\ UNCHANGED cmdFrame

\* aiService.ts 130-138, 33-35: the backend answers; the answer is cleaned of
\* its fence and validated, and the validated text is returned
CmdGenResponds ==
    /\ cpc = "generate"
    /\ \E content \in CmdAnswers :
         LET r == IF content = <<>> THEN Failed(MsgNoResponse)
                  ELSE validateJSXOutput(cleanMarkdownCodeBlocks(content))
         IN  IF r.kind = "error"
             THEN /\ csteps' = Append(csteps, Aborted("generate"))
                  /\ Raise("generate", ErrorOf(r.msg, <<>>))
                  /\ UNCHANGED ccode
             ELSE /\ csteps' = Append(csteps, Ended("generate"))
                  /\ ccode' = r.text
                  /\ cpc' = "derive"
                  /\ UNCHANGED cerror
    /\ UNCHANGED <<cinput, clayout, cwrite, canswer, cnotes, copened,
                   cwritten, cpreviews, dirs, files>>
    /\ UNCHANGED cmdFrame

\* generateFromFigma.ts 75-88, codeWriter.ts 15-63: the file name and the
\* folder are derived and writeJSXCode runs to its first await.  A diff
\* preview, when the options ask for one, is recorded as one event; its
\* scratch files are those of Part I.
CmdWriteCall ==
    /\ cpc = "derive"
    /\ LET fileName == suggestFileName(Given(figmaName(clayout)), Absent)
           targetFolder == determineTargetFolder
           options == [fileName |-> fileName, targetFolder |-> targetFolder,
                       showDiff |-> CmdShowDiff]
           folder == ResolveFolder(options.targetFolder)
           path == ResolvePath(options)
           place == FolderText(folder) \o <<"/">> \o path[2]
           begun == csteps \o <<Started("name"), Ended("name"), Started("folder"),
                                Ended("folder"), Started("write")>>
       IN  /\ cwrite' = [code |-> ccode, options |-> options]
           /\ dirs' = dirs \cup {folder}
           /\ cpreviews' = IF PreviewEnabled(options.showDiff)
                           THEN Append(cpreviews, path) ELSE cpreviews
           /\ IF OverwriteCheck(path)
              THEN /\ csteps' = Append(begun, Aborted("write"))
                   /\ Raise("write", ErrorOf(MsgAlreadyExists, place \o T_cannotOverwrite))
                   /\ UNCHANGED cnotes
              ELSE /\ csteps' = begun
                   /\ cnotes' = Append(cnotes,
                         Note("info", T_createNewFile \o place \o <<"?">>,
                              {"Yes", "No"}, <<>>))
                   /\ cpc' = "confirm"
                   /\ UNCHANGED cerror
    /\ UNCHANGED <<cinput, clayout, ccode, canswer, copened, cwritten, files>>
    /\ UNCHANGED cmdFrame

\* codeWriter.ts 63-66, generateFromFigma.ts 90-98: the confirmation prompt
\* resolves; anything but 'Yes' makes writeJSXCode return null
CmdConfirm ==
    /\ cpc = "confirm"
    /\ \E action \in {"Yes", "No", Undefined} :
         /\ canswer' = action
         /\ IF askUserConfirmation(action)
            THEN /\ cpc' = "write"
                 /\ UNCHANGED <<csteps, cnotes, copened>>
            ELSE LET path == ResolvePath(cwrite.options)
                     place == FolderText(path[1]) \o <<"/">> \o cwrite.options.fileName
                 IN  /\ csteps' = Append(csteps, Ended("write"))
                     /\ cpc' = "done"
                     /\ IF ReportsSuccess(Cancelled)
                        THEN /\ cnotes' = Append(cnotes,
                                   Note("info", T_generated \o place, {}, <<>>))
                             /\ copened' = Append(copened,
                                   Opened("document",
                                       FolderText(path[1]) \o <<"/">> \o path[2], 0))
                        ELSE UNCHANGED <<cnotes, copened>>
    /\ UNCHANGED <<cinput, clayout, ccode, cwrite, cerror, cwritten,
                   cpreviews, dirs, files>>
    /\ UNCHANGED cmdFrame

\* codeWriter.ts 69-74, generateFromFigma.ts 90-98: the file is written, the
\* writer and the command each report it, and the document is opened
CmdWriteOk ==
    /\ cpc = "write"
    /\ LET path == ResolvePath(cwrite.options)
           saved == FolderText(path[1]) \o <<"/">> \o path[2]
           place == FolderText(path[1]) \o <<"/">> \o cwrite.options.fileName
       IN  /\ files' = [q \in DOMAIN files \cup {path} |->
                           IF q = path THEN "generated" ELSE files[q]]
           /\ cwritten' = Append(cwritten, path)
           /\ csteps' = Append(csteps, Ended("write"))
           /\ IF ReportsSuccess(Written(path))
              THEN /\ cnotes' = cnotes \o
                        <<Note("info", T_savedTo \o saved, {}, <<>>),
                          Note("info", T_generated \o place, {}, <<>>)>>
                   /\ copened' = Append(copened, Opened("document", saved, 0))
              ELSE /\ cnotes' = Append(cnotes, Note("info", T_savedTo \o saved, {}, <<>>))
                   /\ UNCHANGED copened
           /\ cpc' = "done"
    /\ UNCHANGED <<cinput, clayout, ccode, cwrite, canswer, cerror,
                   cpreviews, dirs>>
    /\ UNCHANGED cmdFrame

\* codeWriter.ts 69: vscode.workspace.fs.writeFile rejects
CmdWriteFails ==
    /\ cpc = "write"
    /\ cwritten' = Append(cwritten, ResolvePath(cwrite.options))
    /\ csteps' = Append(csteps, Aborted("write"))
    /\ Raise("write", ErrorOf(MsgWriteFailed, <<>>))
    /\ UNCHANGED <<cinput, clayout, ccode, cwrite, canswer, cnotes, copened,
                   cpreviews, dirs, files>>
    /\ UNCHANGED cmdFrame

\* generateFromFigma.ts 99-102: the catch clause of the progress callback
\* reports the error and throws it again
CmdInnerCatch ==
    /\ cpc = "inner_catch"
    /\ cnotes' = Append(cnotes, handleError(cerror))
    /\ cpc' = "outer_catch"
    /\ UNCHANGED <<cinput, clayout, ccode, cwrite, canswer, cerror, copened,
                   csteps, cwritten, cpreviews, dirs, files>>
    /\ UNCHANGED cmdFrame

\* generateFromFigma.ts 105-107: withProgress has rejected; the catch clause
\* of the command reports the error
CmdOuterCatch ==
    /\ cpc = "outer_catch"
    /\ cnotes' = Append(cnotes, handleError(cerror))
    /\ cpc' = "done"
    /\ UNCHANGED <<cinput, clayout, ccode, cwrite, canswer, cerror, copened,
                   csteps, cwritten, cpreviews, dirs, files>>
    /\ UNCHANGED cmdFrame

\* generateFromFigma.ts 135-139: the user picks 'Open Settings' on a
\* notification that offers it
CmdOpenSettings ==
    /\ cpc = "done"
    /\ \E i \in 1..Len(cnotes) :
         /\ "Open Settings" \in cnotes[i].items
         /\ \A k \in 1..Len(copened) : copened[k].note # i
         /\ copened' = Append(copened, Opened("settings", cnotes[i].opens, i))
    /\ UNCHANGED <<cpc, cinput, clayout, ccode, cwrite, canswer, cerror, cnotes,
                   csteps, cwritten, cpreviews, dirs, files>>
    /\ UNCHANGED cmdFrame

CmdNext ==
    \/ CmdStart \/ CmdPrompt \/ CmdScanFails \/ CmdScanOk \/ CmdFetchFails
    \/ CmdFetchOk \/ CmdGenFails \/ CmdGenResponds \/ CmdWriteCall
    \/ CmdConfirm \/ CmdWriteOk \/ CmdWriteFails \/ CmdInnerCatch
    \/ CmdOuterCatch \/ CmdOpenSettings

-----------------------------------------------------------------------------
(*               Claims about the generateFromFigma command                *)

\* the events of a run in which every step returns
FullRun ==
    [i \in 1..(2 * Len(Steps)) |->
        IF i % 2 = 1 THEN Started(Steps[(i + 1) \div 2]) ELSE Ended(Steps[i \div 2])]

\* the events are a beginning of FullRun, or one whose last step threw
InOrder(events) ==
    \E n \in 0..Len(FullRun) :
        \/ events = SubSeq(FullRun, 1, n)
        \/ /\ n >= 2 /\ n % 2 = 0
           /\ events = Append(SubSeq(FullRun, 1, n - 1), Aborted(Steps[n \div 2]))

HasEvent(e) == \E i \in 1..Len(csteps) : csteps[i] = e

C21_WitnessFetchFailed ==
    /\ cpc = "done"
    /\ csteps = <<Started("scan"), Ended("scan"), Started("fetch"), Aborted("fetch")>>
    /\ cerror.msg = MsgFigmaApiError

\* the notifications of a run that report a failure
FailureNotes == {i \in 1..Len(cnotes) : cnotes[i].kind \in {"error", "warning"}}

\* C22: a run that ended on a missing credential, the Figma access token or
\* the AI API key, has reported it with a notification offering 'Open
\* Settings', never as a plain error message.
C22_MissingCredentialOffersSettings ==
    (cpc = "done" /\ cerror.msg \in {MsgNoFigmaToken, MsgNoKey}) =>
        /\ FailureNotes # {}
        /\ \A i \in FailureNotes : "Open Settings" \in cnotes[i].items

\* C23: when the user declines the write confirmation the run ends silently:
\* no error or warning notification, no success notification, no document
\* opened.
C23_DeclineIsSilent ==
    (cpc = "done" /\ canswer \in {"No", Undefined}) =>
        /\ FailureNotes = {}
        /\ \A i \in 1..Len(cnotes) :
              /\ ~HasAt(cnotes[i].text, 1, T_generated)
              /\ ~HasAt(cnotes[i].text, 1, T_savedTo)
        /\ copened = <<>>
        /\ cerror = NoError

\* C23 witness: a run has ended on the answer 'No' to its prompt, the prompt
\* being the one notification shown.
C23_Witness ==
    /\ cpc = "done"
    /\ canswer = "No"
    /\ Len(cnotes) = 1
    /\ HasAt(cnotes[1].text, 1, T_createNewFile)
    /\ files = files0

\* C25: every path the run has handed to the file write was shown in a diff
\* preview before.
C25_PreviewBeforeWrite ==
    \A i \in 1..Len(cwritten) :
        \E k \in 1..Len(cpreviews) : cpreviews[k] = cwritten[i]

\* C29: a run that ended on a failure has shown exactly one failure
\* notification.
C29_OneNotificationPerFailure ==
    (cpc = "done" /\ cerror # NoError) => Cardinality(FailureNotes) = 1

\* C30: every path the run hands to the file write is a direct child of the
\* components or the pages folder of the workspace: its folder is one of the
\* two and its name is one path segment, whatever the node name was.
C30_WritesStayInTargetFolders ==
    \A i \in 1..Len(cwritten) :
        LET path == cwritten[i]
        IN  /\ path[1] \in TargetFolders
            /\ path[2] # <<>>
            /\ path[2] \notin {<<".">>, <<".", ".">>}
            /\ \A k \in 1..Len(path[2]) : path[2][k] \notin {"/", "\\"}

\* C30 witness: a run whose layout was named '../../x' has written x.tsx in
\* one of the two folders.
C30_Witness ==
    /\ cpc = "done"
    /\ clayout.name = Given(N_escape)
    /\ cwritten = << <<determineTargetFolder, <<"x", ".", "t", "s", "x">> >> >>
    /\ cwritten[1] \in DOMAIN files

-----------------------------------------------------------------------------
(*                          Specifications                                 *)

\* the parts a run does not exercise stay at rest
RestOfWriter == GenIdle /\ MapIdle /\ FigIdle /\ NameIdle /\ CmdIdle

\* concurrent invocations of writeJSXCode
Init == InitWriter /\ RestOfWriter
Next == WriterNext
Spec == Init /\ [][Next]_vars

\* one invocation of writeJSXCode alone
InitSolo == InitWriterSolo /\ RestOfWriter
SpecSolo == InitSolo /\ [][WriterNext]_vars

\* one run of generateJSXFromFigma
InitGenRun == WriterIdle /\ InitGen /\ MapIdle /\ FigIdle /\ NameIdle /\ CmdIdle
SpecGen == InitGenRun /\ [][GenNext]_vars

\* one call of the mapper
InitMapRun == WriterIdle /\ GenIdle /\ InitMap /\ FigIdle /\ NameIdle /\ CmdIdle
SpecMap == InitMapRun /\ [][MapNext]_vars

\* one call of fetchFigmaLayout
InitFigRun == WriterIdle /\ GenIdle /\ MapIdle /\ InitFig /\ NameIdle /\ CmdIdle
SpecFig == InitFigRun /\ [][FigNext]_vars

\* one call of either network collaborator: fetchFigmaLayout or
\* generateJSXFromFigma
InitNet ==
    /\ WriterIdle /\ MapIdle /\ NameIdle /\ CmdIdle
    /\ \/ InitFig /\ GenIdle
       \/ FigIdle /\ InitGen
NetNext == FigNext \/ GenNext
SpecNet == InitNet /\ [][NetNext]_vars

\* one call of suggestFileName
InitNameRun == WriterIdle /\ GenIdle /\ MapIdle /\ FigIdle /\ InitName /\ CmdIdle
SpecName == InitNameRun /\ [][NameNext]_vars

\* one run of the generateFromFigma command
SpecCmd == InitCmd /\ [][CmdNext]_vars

=============================================================================
